---- MODULE Spec2Model ----
(***************************************************************************)
(* Japanese verb conjugation engine of kana-dojo (features/Conjugator).    *)
(*                                                                         *)
(* A JavaScript string is a sequence of UTF-16 code units (naturals); a    *)
(* kana or kanji literal of the source is written as the tuple of its code *)
(* units, with the literal in a comment next to it.  An optional value     *)
(* (string | null, T | undefined) is a sequence of length 0 or 1.          *)
(***************************************************************************)
EXTENDS Integers, Sequences, FiniteSets, TLC

VARIABLES
  input,   \* the verb text the caller works with
  pc,      \* position of the caller
  now,     \* the clock Date.now() reads
  arg,     \* the string passed in the latest conjugate call
  ret,     \* value returned by the latest conjugate call (optional)
  prev,    \* value returned by the first call conjugate(input) (optional)
  mixed,   \* whether conjugate has been called on a text other than input
  teta,    \* values returned by getGodanTeForm / getGodanTaForm (optional)
  json,    \* text returned by the latest serializeResult call (optional)
  back,    \* value returned by the latest deserializeResult call (optional)
  pot,     \* values returned by the one-grade potential helpers (optional)
  latin,   \* text returned by the latest toRomaji call (optional)
  store,   \* the state object of the conjugator store (useConjugatorStore)
  op,      \* the latest store operation and its argument
  origin,  \* verb info and forms of the result each history entry was created from, by verb text
  kana     \* values returned by the romajiToHiragana calls (each optional)

vars == <<input, pc, now, arg, ret, prev, mixed, teta, json, back, pot, latin, store, op, origin, kana>>

(***************************************************************************)
(* String primitives of the language runtime, as the engine uses them.     *)
(***************************************************************************)
Min(a, b) == IF a < b THEN a ELSE b
Max(a, b) == IF a > b THEN a ELSE b

\* String.prototype.slice index normalisation
sliceIndex(i, len) == IF i < 0 THEN Max(len + i, 0) ELSE Min(i, len)

\* str.slice(start, end), 0-based, end exclusive, negative indexes from the end
slice(str, start, end) ==
  LET from == sliceIndex(start, Len(str))
      to   == sliceIndex(end, Len(str))
  IN  IF from >= to THEN <<>> ELSE SubSeq(str, from + 1, to)

\* str.slice(start)
sliceFrom(str, start) == slice(str, start, Len(str))

\* str.endsWith(suffix)
endsWith(str, suffix) ==
  /\ Len(suffix) <= Len(str)
  /\ SubSeq(str, Len(str) - Len(suffix) + 1, Len(str)) = suffix

\* WhiteSpace and LineTerminator code units removed by String.prototype.trim
isWhiteSpace(c) ==
  \/ c \in {9, 10, 11, 12, 13, 32, 160, 5760, 8232, 8233, 8239, 8287, 12288, 65279}
  \/ (c >= 8192 /\ c <= 8202)

RECURSIVE trimStart(_)
trimStart(s) ==
  IF s # <<>> /\ isWhiteSpace(Head(s)) THEN trimStart(Tail(s)) ELSE s

RECURSIVE trimEnd(_)
trimEnd(s) ==
  IF s # <<>> /\ isWhiteSpace(s[Len(s)]) THEN trimEnd(SubSeq(s, 1, Len(s) - 1)) ELSE s

RECURSIVE trimSpacesStart(_)
trimSpacesStart(s) == IF s # <<>> /\ Head(s) = 32 THEN trimSpacesStart(Tail(s)) ELSE s

RECURSIVE trimSpacesEnd(_)
trimSpacesEnd(s) ==
  IF s # <<>> /\ s[Len(s)] = 32 THEN trimSpacesEnd(SubSeq(s, 1, Len(s) - 1)) ELSE s

\* mutant: strips the space character only
trimSpaces(s) == trimSpacesEnd(trimSpacesStart(s))

\* str.trim()
trim(s) == trimEnd(trimStart(s))

(***************************************************************************)
(* Static tables (data/verbData.ts, data/conjugationForms.ts).             *)
(***************************************************************************)
IRREGULAR_VERBS ==
     (<<12377, 12427>> :> "suru")  \* する
  @@ (<<26469, 12427>> :> "kuru")  \* 来る
  @@ (<<12367, 12427>> :> "kuru")  \* くる
  @@ (<<12354, 12427>> :> "aru")  \* ある
  @@ (<<34892, 12367>> :> "iku")  \* 行く
  @@ (<<12356, 12367>> :> "iku")  \* いく
  @@ (<<12367, 12384, 12373, 12427>> :> "honorific")  \* くださる
  @@ (<<12394, 12373, 12427>> :> "honorific")  \* なさる
  @@ (<<12356, 12425, 12387, 12375, 12419, 12427>> :> "honorific")  \* いらっしゃる
  @@ (<<12362, 12387, 12375, 12419, 12427>> :> "honorific")  \* おっしゃる
  @@ (<<12372, 12374, 12427>> :> "honorific")  \* ござる

SURU_COMPOUND_SUFFIXES == << <<12377, 12427>> >>  \* する

KURU_COMPOUND_SUFFIXES == << <<12367, 12427>>, <<26469, 12427>> >>  \* くる 来る

GODAN_ENDINGS ==
     (<<12358>> :> [a |-> <<12431>>, i |-> <<12356>>, e |-> <<12360>>, o |-> <<12362>>,
                  te |-> <<12387, 12390>>, ta |-> <<12387, 12383>>])  \* う わ い え お って った
  @@ (<<12367>> :> [a |-> <<12363>>, i |-> <<12365>>, e |-> <<12369>>, o |-> <<12371>>,
                  te |-> <<12356, 12390>>, ta |-> <<12356, 12383>>])  \* く か き け こ いて いた
  @@ (<<12368>> :> [a |-> <<12364>>, i |-> <<12366>>, e |-> <<12370>>, o |-> <<12372>>,
                  te |-> <<12356, 12391>>, ta |-> <<12356, 12384>>])  \* ぐ が ぎ げ ご いで いだ
  @@ (<<12377>> :> [a |-> <<12373>>, i |-> <<12375>>, e |-> <<12379>>, o |-> <<12381>>,
                  te |-> <<12375, 12390>>, ta |-> <<12375, 12383>>])  \* す さ し せ そ して した
  @@ (<<12388>> :> [a |-> <<12383>>, i |-> <<12385>>, e |-> <<12390>>, o |-> <<12392>>,
                  te |-> <<12387, 12390>>, ta |-> <<12387, 12383>>])  \* つ た ち て と って った
  @@ (<<12396>> :> [a |-> <<12394>>, i |-> <<12395>>, e |-> <<12397>>, o |-> <<12398>>,
                  te |-> <<12435, 12391>>, ta |-> <<12435, 12384>>])  \* ぬ な に ね の んで んだ
  @@ (<<12406>> :> [a |-> <<12400>>, i |-> <<12403>>, e |-> <<12409>>, o |-> <<12412>>,
                  te |-> <<12435, 12391>>, ta |-> <<12435, 12384>>])  \* ぶ ば び べ ぼ んで んだ
  @@ (<<12416>> :> [a |-> <<12414>>, i |-> <<12415>>, e |-> <<12417>>, o |-> <<12418>>,
                  te |-> <<12435, 12391>>, ta |-> <<12435, 12384>>])  \* む ま み め も んで んだ
  @@ (<<12427>> :> [a |-> <<12425>>, i |-> <<12426>>, e |-> <<12428>>, o |-> <<12429>>,
                  te |-> <<12387, 12390>>, ta |-> <<12387, 12383>>])  \* る ら り れ ろ って った

ICHIDAN_PRECEDING_CHARS == {
  <<12356>>,  \* い
  <<12365>>,  \* き
  <<12375>>,  \* し
  <<12385>>,  \* ち
  <<12395>>,  \* に
  <<12402>>,  \* ひ
  <<12415>>,  \* み
  <<12426>>,  \* り
  <<12366>>,  \* ぎ
  <<12376>>,  \* じ
  <<12386>>,  \* ぢ
  <<12403>>,  \* び
  <<12404>>,  \* ぴ
  <<12360>>,  \* え
  <<12369>>,  \* け
  <<12379>>,  \* せ
  <<12390>>,  \* て
  <<12397>>,  \* ね
  <<12408>>,  \* へ
  <<12417>>,  \* め
  <<12428>>,  \* れ
  <<12370>>,  \* げ
  <<12380>>,  \* ぜ
  <<12391>>,  \* で
  <<12409>>,  \* べ
  <<12410>>  \* ぺ
}

FALSE_ICHIDAN_VERBS == {
  <<35201, 12427>>,  \* 要る
  <<12356, 12427>>,  \* いる
  <<20837, 12427>>,  \* 入る
  <<12399, 12356, 12427>>,  \* はいる
  <<36208, 12427>>,  \* 走る
  <<12399, 12375, 12427>>,  \* はしる
  <<30693, 12427>>,  \* 知る
  <<12375, 12427>>,  \* しる
  <<20999, 12427>>,  \* 切る
  <<12365, 12427>>,  \* きる
  <<24112, 12427>>,  \* 帰る
  <<12363, 12360, 12427>>,  \* かえる
  <<38480, 12427>>,  \* 限る
  <<12363, 12366, 12427>>,  \* かぎる
  <<25569, 12427>>,  \* 握る
  <<12395, 12366, 12427>>,  \* にぎる
  <<21442, 12427>>,  \* 参る
  <<12414, 12356, 12427>>,  \* まいる
  <<25955, 12427>>,  \* 散る
  <<12385, 12427>>,  \* ちる
  <<28151, 12376, 12427>>,  \* 混じる
  <<12414, 12376, 12427>>,  \* まじる
  <<22066, 12427>>,  \* 嘲る
  <<28369, 12427>>,  \* 滑る
  <<12377, 12409, 12427>>,  \* すべる
  <<36468, 12427>>,  \* 蹴る
  <<12369, 12427>>,  \* ける
  <<29031, 12427>>,  \* 照る
  <<12390, 12427>>,  \* てる
  <<32244, 12427>>,  \* 練る
  <<12397, 12427>>,  \* ねる
  <<28187, 12427>>,  \* 減る
  <<12408, 12427>>,  \* へる
  <<28966, 12427>>,  \* 焦る
  <<12354, 12379, 12427>>,  \* あせる
  <<21899, 12427>>,  \* 喋る
  <<12375, 12419, 12409, 12427>>  \* しゃべる
}

KNOWN_ICHIDAN_VERBS == {
  <<35211, 12427>>,  \* 見る
  <<12415, 12427>>,  \* みる
  <<30528, 12427>>,  \* 着る
  <<36215, 12365, 12427>>,  \* 起きる
  <<12362, 12365, 12427>>,  \* おきる
  <<38477, 12426, 12427>>,  \* 降りる
  <<12362, 12426, 12427>>,  \* おりる
  <<20511, 12426, 12427>>,  \* 借りる
  <<12363, 12426, 12427>>,  \* かりる
  <<23621, 12427>>,  \* 居る
  <<20449, 12376, 12427>>,  \* 信じる
  <<12375, 12435, 12376, 12427>>,  \* しんじる
  <<24863, 12376, 12427>>,  \* 感じる
  <<12363, 12435, 12376, 12427>>,  \* かんじる
  <<33853, 12385, 12427>>,  \* 落ちる
  <<12362, 12385, 12427>>,  \* おちる
  <<36942, 12366, 12427>>,  \* 過ぎる
  <<12377, 12366, 12427>>,  \* すぎる
  <<29983, 12365, 12427>>,  \* 生きる
  <<12356, 12365, 12427>>,  \* いきる
  <<28020, 12403, 12427>>,  \* 浴びる
  <<12354, 12403, 12427>>,  \* あびる
  <<39135, 12409, 12427>>,  \* 食べる
  <<12383, 12409, 12427>>,  \* たべる
  <<23517, 12427>>,  \* 寝る
  <<20986, 12427>>,  \* 出る
  <<12391, 12427>>,  \* でる
  <<38283, 12369, 12427>>,  \* 開ける
  <<12354, 12369, 12427>>,  \* あける
  <<38281, 12417, 12427>>,  \* 閉める
  <<12375, 12417, 12427>>,  \* しめる
  <<25945, 12360, 12427>>,  \* 教える
  <<12362, 12375, 12360, 12427>>,  \* おしえる
  <<35226, 12360, 12427>>,  \* 覚える
  <<12362, 12412, 12360, 12427>>,  \* おぼえる
  <<31572, 12360, 12427>>,  \* 答える
  <<12371, 12383, 12360, 12427>>,  \* こたえる
  <<32771, 12360, 12427>>,  \* 考える
  <<12363, 12435, 12364, 12360, 12427>>,  \* かんがえる
  <<22793, 12360, 12427>>,  \* 変える
  <<22987, 12417, 12427>>,  \* 始める
  <<12399, 12376, 12417, 12427>>,  \* はじめる
  <<27490, 12417, 12427>>,  \* 止める
  <<12392, 12417, 12427>>,  \* とめる
  <<38598, 12417, 12427>>,  \* 集める
  <<12354, 12388, 12417, 12427>>,  \* あつめる
  <<35519, 12409, 12427>>,  \* 調べる
  <<12375, 12425, 12409, 12427>>,  \* しらべる
  <<27604, 12409, 12427>>,  \* 比べる
  <<12367, 12425, 12409, 12427>>  \* くらべる
}

HIRAGANA_TO_ROMAJI ==
     (<<12354>> :> <<97>>)  \* あ a
  @@ (<<12356>> :> <<105>>)  \* い i
  @@ (<<12358>> :> <<117>>)  \* う u
  @@ (<<12360>> :> <<101>>)  \* え e
  @@ (<<12362>> :> <<111>>)  \* お o
  @@ (<<12363>> :> <<107, 97>>)  \* か ka
  @@ (<<12365>> :> <<107, 105>>)  \* き ki
  @@ (<<12367>> :> <<107, 117>>)  \* く ku
  @@ (<<12369>> :> <<107, 101>>)  \* け ke
  @@ (<<12371>> :> <<107, 111>>)  \* こ ko
  @@ (<<12373>> :> <<115, 97>>)  \* さ sa
  @@ (<<12375>> :> <<115, 104, 105>>)  \* し shi
  @@ (<<12377>> :> <<115, 117>>)  \* す su
  @@ (<<12379>> :> <<115, 101>>)  \* せ se
  @@ (<<12381>> :> <<115, 111>>)  \* そ so
  @@ (<<12383>> :> <<116, 97>>)  \* た ta
  @@ (<<12385>> :> <<99, 104, 105>>)  \* ち chi
  @@ (<<12388>> :> <<116, 115, 117>>)  \* つ tsu
  @@ (<<12390>> :> <<116, 101>>)  \* て te
  @@ (<<12392>> :> <<116, 111>>)  \* と to
  @@ (<<12394>> :> <<110, 97>>)  \* な na
  @@ (<<12395>> :> <<110, 105>>)  \* に ni
  @@ (<<12396>> :> <<110, 117>>)  \* ぬ nu
  @@ (<<12397>> :> <<110, 101>>)  \* ね ne
  @@ (<<12398>> :> <<110, 111>>)  \* の no
  @@ (<<12399>> :> <<104, 97>>)  \* は ha
  @@ (<<12402>> :> <<104, 105>>)  \* ひ hi
  @@ (<<12405>> :> <<102, 117>>)  \* ふ fu
  @@ (<<12408>> :> <<104, 101>>)  \* へ he
  @@ (<<12411>> :> <<104, 111>>)  \* ほ ho
  @@ (<<12414>> :> <<109, 97>>)  \* ま ma
  @@ (<<12415>> :> <<109, 105>>)  \* み mi
  @@ (<<12416>> :> <<109, 117>>)  \* む mu
  @@ (<<12417>> :> <<109, 101>>)  \* め me
  @@ (<<12418>> :> <<109, 111>>)  \* も mo
  @@ (<<12420>> :> <<121, 97>>)  \* や ya
  @@ (<<12422>> :> <<121, 117>>)  \* ゆ yu
  @@ (<<12424>> :> <<121, 111>>)  \* よ yo
  @@ (<<12425>> :> <<114, 97>>)  \* ら ra
  @@ (<<12426>> :> <<114, 105>>)  \* り ri
  @@ (<<12427>> :> <<114, 117>>)  \* る ru
  @@ (<<12428>> :> <<114, 101>>)  \* れ re
  @@ (<<12429>> :> <<114, 111>>)  \* ろ ro
  @@ (<<12431>> :> <<119, 97>>)  \* わ wa
  @@ (<<12434>> :> <<119, 111>>)  \* を wo
  @@ (<<12435>> :> <<110>>)  \* ん n
  @@ (<<12364>> :> <<103, 97>>)  \* が ga
  @@ (<<12366>> :> <<103, 105>>)  \* ぎ gi
  @@ (<<12368>> :> <<103, 117>>)  \* ぐ gu
  @@ (<<12370>> :> <<103, 101>>)  \* げ ge
  @@ (<<12372>> :> <<103, 111>>)  \* ご go
  @@ (<<12374>> :> <<122, 97>>)  \* ざ za
  @@ (<<12376>> :> <<106, 105>>)  \* じ ji
  @@ (<<12378>> :> <<122, 117>>)  \* ず zu
  @@ (<<12380>> :> <<122, 101>>)  \* ぜ ze
  @@ (<<12382>> :> <<122, 111>>)  \* ぞ zo
  @@ (<<12384>> :> <<100, 97>>)  \* だ da
  @@ (<<12386>> :> <<106, 105>>)  \* ぢ ji
  @@ (<<12389>> :> <<122, 117>>)  \* づ zu
  @@ (<<12391>> :> <<100, 101>>)  \* で de
  @@ (<<12393>> :> <<100, 111>>)  \* ど do
  @@ (<<12400>> :> <<98, 97>>)  \* ば ba
  @@ (<<12403>> :> <<98, 105>>)  \* び bi
  @@ (<<12406>> :> <<98, 117>>)  \* ぶ bu
  @@ (<<12409>> :> <<98, 101>>)  \* べ be
  @@ (<<12412>> :> <<98, 111>>)  \* ぼ bo
  @@ (<<12401>> :> <<112, 97>>)  \* ぱ pa
  @@ (<<12404>> :> <<112, 105>>)  \* ぴ pi
  @@ (<<12407>> :> <<112, 117>>)  \* ぷ pu
  @@ (<<12410>> :> <<112, 101>>)  \* ぺ pe
  @@ (<<12413>> :> <<112, 111>>)  \* ぽ po
  @@ (<<12419>> :> <<121, 97>>)  \* ゃ ya
  @@ (<<12421>> :> <<121, 117>>)  \* ゅ yu
  @@ (<<12423>> :> <<121, 111>>)  \* ょ yo
  @@ (<<12387>> :> <<>>)  \* っ 
  @@ (<<12353>> :> <<97>>)  \* ぁ a
  @@ (<<12355>> :> <<105>>)  \* ぃ i
  @@ (<<12357>> :> <<117>>)  \* ぅ u
  @@ (<<12359>> :> <<101>>)  \* ぇ e
  @@ (<<12361>> :> <<111>>)  \* ぉ o

\* Object.keys(HIRAGANA_TO_ROMAJI): the keys in the order of the declaration
HIRAGANA_TO_ROMAJI_KEYS == <<
  <<12354>>, <<12356>>, <<12358>>, <<12360>>, <<12362>>, <<12363>>, <<12365>>, <<12367>>,  \* あ い う え お か き く
  <<12369>>, <<12371>>, <<12373>>, <<12375>>, <<12377>>, <<12379>>, <<12381>>, <<12383>>,  \* け こ さ し す せ そ た
  <<12385>>, <<12388>>, <<12390>>, <<12392>>, <<12394>>, <<12395>>, <<12396>>, <<12397>>,  \* ち つ て と な に ぬ ね
  <<12398>>, <<12399>>, <<12402>>, <<12405>>, <<12408>>, <<12411>>, <<12414>>, <<12415>>,  \* の は ひ ふ へ ほ ま み
  <<12416>>, <<12417>>, <<12418>>, <<12420>>, <<12422>>, <<12424>>, <<12425>>, <<12426>>,  \* む め も や ゆ よ ら り
  <<12427>>, <<12428>>, <<12429>>, <<12431>>, <<12434>>, <<12435>>, <<12364>>, <<12366>>,  \* る れ ろ わ を ん が ぎ
  <<12368>>, <<12370>>, <<12372>>, <<12374>>, <<12376>>, <<12378>>, <<12380>>, <<12382>>,  \* ぐ げ ご ざ じ ず ぜ ぞ
  <<12384>>, <<12386>>, <<12389>>, <<12391>>, <<12393>>, <<12400>>, <<12403>>, <<12406>>,  \* だ ぢ づ で ど ば び ぶ
  <<12409>>, <<12412>>, <<12401>>, <<12404>>, <<12407>>, <<12410>>, <<12413>>, <<12419>>,  \* べ ぼ ぱ ぴ ぷ ぺ ぽ ゃ
  <<12421>>, <<12423>>, <<12387>>, <<12353>>, <<12355>>, <<12357>>, <<12359>>, <<12361>>  \* ゅ ょ っ ぁ ぃ ぅ ぇ ぉ
>>

HIRAGANA_COMBINATIONS ==
     (<<12365, 12419>> :> <<107, 121, 97>>)  \* きゃ kya
  @@ (<<12365, 12421>> :> <<107, 121, 117>>)  \* きゅ kyu
  @@ (<<12365, 12423>> :> <<107, 121, 111>>)  \* きょ kyo
  @@ (<<12375, 12419>> :> <<115, 104, 97>>)  \* しゃ sha
  @@ (<<12375, 12421>> :> <<115, 104, 117>>)  \* しゅ shu
  @@ (<<12375, 12423>> :> <<115, 104, 111>>)  \* しょ sho
  @@ (<<12385, 12419>> :> <<99, 104, 97>>)  \* ちゃ cha
  @@ (<<12385, 12421>> :> <<99, 104, 117>>)  \* ちゅ chu
  @@ (<<12385, 12423>> :> <<99, 104, 111>>)  \* ちょ cho
  @@ (<<12395, 12419>> :> <<110, 121, 97>>)  \* にゃ nya
  @@ (<<12395, 12421>> :> <<110, 121, 117>>)  \* にゅ nyu
  @@ (<<12395, 12423>> :> <<110, 121, 111>>)  \* にょ nyo
  @@ (<<12402, 12419>> :> <<104, 121, 97>>)  \* ひゃ hya
  @@ (<<12402, 12421>> :> <<104, 121, 117>>)  \* ひゅ hyu
  @@ (<<12402, 12423>> :> <<104, 121, 111>>)  \* ひょ hyo
  @@ (<<12415, 12419>> :> <<109, 121, 97>>)  \* みゃ mya
  @@ (<<12415, 12421>> :> <<109, 121, 117>>)  \* みゅ myu
  @@ (<<12415, 12423>> :> <<109, 121, 111>>)  \* みょ myo
  @@ (<<12426, 12419>> :> <<114, 121, 97>>)  \* りゃ rya
  @@ (<<12426, 12421>> :> <<114, 121, 117>>)  \* りゅ ryu
  @@ (<<12426, 12423>> :> <<114, 121, 111>>)  \* りょ ryo
  @@ (<<12366, 12419>> :> <<103, 121, 97>>)  \* ぎゃ gya
  @@ (<<12366, 12421>> :> <<103, 121, 117>>)  \* ぎゅ gyu
  @@ (<<12366, 12423>> :> <<103, 121, 111>>)  \* ぎょ gyo
  @@ (<<12376, 12419>> :> <<106, 97>>)  \* じゃ ja
  @@ (<<12376, 12421>> :> <<106, 117>>)  \* じゅ ju
  @@ (<<12376, 12423>> :> <<106, 111>>)  \* じょ jo
  @@ (<<12403, 12419>> :> <<98, 121, 97>>)  \* びゃ bya
  @@ (<<12403, 12421>> :> <<98, 121, 117>>)  \* びゅ byu
  @@ (<<12403, 12423>> :> <<98, 121, 111>>)  \* びょ byo
  @@ (<<12404, 12419>> :> <<112, 121, 97>>)  \* ぴゃ pya
  @@ (<<12404, 12421>> :> <<112, 121, 117>>)  \* ぴゅ pyu
  @@ (<<12404, 12423>> :> <<112, 121, 111>>)  \* ぴょ pyo

\* Object.keys(HIRAGANA_COMBINATIONS): the keys in the order of the declaration
HIRAGANA_COMBINATIONS_KEYS == <<
  <<12365, 12419>>, <<12365, 12421>>, <<12365, 12423>>, <<12375, 12419>>, <<12375, 12421>>, <<12375, 12423>>, <<12385, 12419>>, <<12385, 12421>>,  \* きゃ きゅ きょ しゃ しゅ しょ ちゃ ちゅ
  <<12385, 12423>>, <<12395, 12419>>, <<12395, 12421>>, <<12395, 12423>>, <<12402, 12419>>, <<12402, 12421>>, <<12402, 12423>>, <<12415, 12419>>,  \* ちょ にゃ にゅ にょ ひゃ ひゅ ひょ みゃ
  <<12415, 12421>>, <<12415, 12423>>, <<12426, 12419>>, <<12426, 12421>>, <<12426, 12423>>, <<12366, 12419>>, <<12366, 12421>>, <<12366, 12423>>,  \* みゅ みょ りゃ りゅ りょ ぎゃ ぎゅ ぎょ
  <<12376, 12419>>, <<12376, 12421>>, <<12376, 12423>>, <<12403, 12419>>, <<12403, 12421>>, <<12403, 12423>>, <<12404, 12419>>, <<12404, 12421>>,  \* じゃ じゅ じょ びゃ びゅ びょ ぴゃ ぴゅ
  <<12404, 12423>>  \* ぴょ
>>

CONJUGATION_FORMS == <<
  [id |-> "dictionary", category |-> "basic", name |-> "Dictionary Form",
   nameJa |-> <<36766, 26360, 24418>>, formality |-> "plain"],  \* 辞書形
  [id |-> "te", category |-> "basic", name |-> "Te Form",
   nameJa |-> <<12390, 24418>>, formality |-> "plain"],  \* て形
  [id |-> "masu", category |-> "polite", name |-> "Masu Form",
   nameJa |-> <<12414, 12377, 24418>>, formality |-> "polite"],  \* ます形
  [id |-> "masen", category |-> "polite", name |-> "Masen (Polite Negative)",
   nameJa |-> <<12414, 12379, 12435>>, formality |-> "polite"],  \* ません
  [id |-> "mashita", category |-> "polite", name |-> "Mashita (Polite Past)",
   nameJa |-> <<12414, 12375, 12383>>, formality |-> "polite"],  \* ました
  [id |-> "masen-deshita", category |-> "polite", name |-> "Masen Deshita (Polite Past Negative)",
   nameJa |-> <<12414, 12379, 12435, 12391, 12375, 12383>>, formality |-> "polite"],  \* ませんでした
  [id |-> "nai", category |-> "negative", name |-> "Nai Form (Negative)",
   nameJa |-> <<12394, 12356, 24418>>, formality |-> "plain"],  \* ない形
  [id |-> "nakatta", category |-> "negative", name |-> "Nakatta Form (Past Negative)",
   nameJa |-> <<12394, 12363, 12387, 12383, 24418>>, formality |-> "plain"],  \* なかった形
  [id |-> "ta", category |-> "past", name |-> "Ta Form (Past)",
   nameJa |-> <<12383, 24418>>, formality |-> "plain"],  \* た形
  [id |-> "volitional-plain", category |-> "volitional", name |-> "Volitional (Plain)",
   nameJa |-> <<24847, 21521, 24418>>, formality |-> "plain"],  \* 意向形
  [id |-> "volitional-polite", category |-> "volitional", name |-> "Volitional (Polite)",
   nameJa |-> <<12414, 12375, 12423, 12358>>, formality |-> "polite"],  \* ましょう
  [id |-> "potential-plain", category |-> "potential", name |-> "Potential (Plain)",
   nameJa |-> <<21487, 33021, 24418>>, formality |-> "plain"],  \* 可能形
  [id |-> "potential-polite", category |-> "potential", name |-> "Potential (Polite)",
   nameJa |-> <<21487, 33021, 24418, 19969, 23527>>, formality |-> "polite"],  \* 可能形丁寧
  [id |-> "potential-negative", category |-> "potential", name |-> "Potential (Negative)",
   nameJa |-> <<21487, 33021, 24418, 21542, 23450>>, formality |-> "plain"],  \* 可能形否定
  [id |-> "passive-plain", category |-> "passive", name |-> "Passive (Plain)",
   nameJa |-> <<21463, 36523, 24418>>, formality |-> "plain"],  \* 受身形
  [id |-> "passive-polite", category |-> "passive", name |-> "Passive (Polite)",
   nameJa |-> <<21463, 36523, 24418, 19969, 23527>>, formality |-> "polite"],  \* 受身形丁寧
  [id |-> "causative-plain", category |-> "causative", name |-> "Causative (Plain)",
   nameJa |-> <<20351, 24441, 24418>>, formality |-> "plain"],  \* 使役形
  [id |-> "causative-polite", category |-> "causative", name |-> "Causative (Polite)",
   nameJa |-> <<20351, 24441, 24418, 19969, 23527>>, formality |-> "polite"],  \* 使役形丁寧
  [id |-> "causative-passive-plain", category |-> "causative-passive", name |-> "Causative-Passive (Plain)",
   nameJa |-> <<20351, 24441, 21463, 36523, 24418>>, formality |-> "plain"],  \* 使役受身形
  [id |-> "causative-passive-polite", category |-> "causative-passive", name |-> "Causative-Passive (Polite)",
   nameJa |-> <<20351, 24441, 21463, 36523, 24418, 19969, 23527>>, formality |-> "polite"],  \* 使役受身形丁寧
  [id |-> "imperative-plain", category |-> "imperative", name |-> "Imperative (Plain)",
   nameJa |-> <<21629, 20196, 24418>>, formality |-> "plain"],  \* 命令形
  [id |-> "imperative-polite", category |-> "imperative", name |-> "Imperative (Polite)",
   nameJa |-> <<12390, 12367, 12384, 12373, 12356>>, formality |-> "polite"],  \* てください
  [id |-> "imperative-negative", category |-> "imperative", name |-> "Negative Imperative",
   nameJa |-> <<31105, 27490, 24418>>, formality |-> "plain"],  \* 禁止形
  [id |-> "conditional-ba", category |-> "conditional", name |-> "Ba Form (Conditional)",
   nameJa |-> <<12400, 24418>>, formality |-> "plain"],  \* ば形
  [id |-> "conditional-tara", category |-> "conditional", name |-> "Tara Form (Conditional)",
   nameJa |-> <<12383, 12425, 24418>>, formality |-> "plain"],  \* たら形
  [id |-> "conditional-nara", category |-> "conditional", name |-> "Nara Form (Conditional)",
   nameJa |-> <<12394, 12425, 24418>>, formality |-> "plain"],  \* なら形
  [id |-> "tai", category |-> "tai-form", name |-> "Tai Form (Want to)",
   nameJa |-> <<12383, 12356, 24418>>, formality |-> "plain"],  \* たい形
  [id |-> "takunai", category |-> "tai-form", name |-> "Takunai (Don't want to)",
   nameJa |-> <<12383, 12367, 12394, 12356>>, formality |-> "plain"],  \* たくない
  [id |-> "takatta", category |-> "tai-form", name |-> "Takatta (Wanted to)",
   nameJa |-> <<12383, 12363, 12387, 12383>>, formality |-> "plain"],  \* たかった
  [id |-> "takunakatta", category |-> "tai-form", name |-> "Takunakatta (Didn't want to)",
   nameJa |-> <<12383, 12367, 12394, 12363, 12387, 12383>>, formality |-> "plain"],  \* たくなかった
  [id |-> "progressive-present", category |-> "progressive", name |-> "Te-iru (Continuous)",
   nameJa |-> <<12390, 12356, 12427>>, formality |-> "plain"],  \* ている
  [id |-> "progressive-past", category |-> "progressive", name |-> "Te-ita (Past Continuous)",
   nameJa |-> <<12390, 12356, 12383>>, formality |-> "plain"],  \* ていた
  [id |-> "honorific-respectful", category |-> "honorific", name |-> "Respectful (O-verb-ni-naru)",
   nameJa |-> <<12362, 12316, 12395, 12394, 12427>>, formality |-> "polite"],  \* お〜になる
  [id |-> "honorific-humble", category |-> "honorific", name |-> "Humble (O-verb-suru)",
   nameJa |-> <<12362, 12316, 12377, 12427>>, formality |-> "polite"]  \* お〜する
>>

\* Object.keys(GODAN_ENDINGS)
GODAN_ENDING_CHARS == DOMAIN GODAN_ENDINGS

(***************************************************************************)
(* Classifier (lib/engine/classifyVerb.ts).                                *)
(***************************************************************************)

\* table[key], undefined when the key is absent: an optional value
lookup(table, key) == IF key \in DOMAIN table THEN <<table[key]>> ELSE <<>>

\* hiraganaToRomaji: the while loop, i 1-based, result the text emitted so far
RECURSIVE hiraganaToRomajiLoop(_, _, _)
hiraganaToRomajiLoop(hiragana, i, result) ==
  IF i > Len(hiragana) THEN result
  ELSE IF hiragana[i] = 12387 (* っ *) /\ i < Len(hiragana) THEN
    LET combo == IF i + 1 < Len(hiragana) THEN lookup(HIRAGANA_COMBINATIONS, SubSeq(hiragana, i + 1, i + 2))
                 ELSE <<>>
        nextRomaji == lookup(HIRAGANA_TO_ROMAJI, <<hiragana[i + 1]>>)
    IN  IF combo # <<>> THEN
          hiraganaToRomajiLoop(hiragana, i + 1, result \o <<combo[1][1]>>)
        ELSE IF nextRomaji # <<>> /\ Len(nextRomaji[1]) > 0 THEN
          hiraganaToRomajiLoop(hiragana, i + 1, result \o <<nextRomaji[1][1]>>)
        ELSE
          hiraganaToRomajiLoop(hiragana, i + 1, result)
  ELSE
    LET combo == IF i < Len(hiragana) THEN lookup(HIRAGANA_COMBINATIONS, SubSeq(hiragana, i, i + 1))
                 ELSE <<>>
        romaji == lookup(HIRAGANA_TO_ROMAJI, <<hiragana[i]>>)
    IN  IF combo # <<>> THEN
          hiraganaToRomajiLoop(hiragana, i + 2, result \o combo[1])
        ELSE IF romaji # <<>> THEN
          hiraganaToRomajiLoop(hiragana, i + 1, result \o romaji[1])
        ELSE
          hiraganaToRomajiLoop(hiragana, i + 1, result \o <<hiragana[i]>>)

hiraganaToRomaji(hiragana) == hiraganaToRomajiLoop(hiragana, 1, <<>>)

isHiragana(code) == code >= 12352 /\ code <= 12447   \* 0x3040 .. 0x309f

isKatakana(code) == code >= 12448 /\ code <= 12543   \* 0x30a0 .. 0x30ff

isKanji(code) ==
  \/ (code >= 19968 /\ code <= 40879)                \* 0x4e00 .. 0x9faf
  \/ (code >= 13312 /\ code <= 19903)                \* 0x3400 .. 0x4dbf

\* mutant: accepts any string that holds at least one Japanese character
isJapaneseSome(str) ==
  \E k \in 1..Len(str) : isHiragana(str[k]) \/ isKatakana(str[k]) \/ isKanji(str[k])

\* isJapanese: the for-of loop reads the first code unit of each character; a
\* character outside the BMP starts with a surrogate, which is in no range.
isJapanese(str) ==
  /\ \A k \in 1..Len(str) : isHiragana(str[k]) \/ isKatakana(str[k]) \/ isKanji(str[k])
  /\ Len(str) > 0

getLastChar(str) == sliceFrom(str, -1)

\* mutant: the stem of a regular verb loses its last character too
getStemShort(str) == slice(str, 0, -2)

getStem(str) == slice(str, 0, -1)

\* the first suffix of the list that the verb ends with and is longer than
RECURSIVE detectCompound(_, _, _)
\* mutant: a verb that is nothing but the suffix is a compound with an empty prefix
detectCompoundBare(verb, suffixes, k) ==
  IF \E j \in k..Len(suffixes) : endsWith(verb, suffixes[j])
  THEN <<slice(verb, 0, -Len(suffixes[CHOOSE j \in k..Len(suffixes) :
                                        /\ endsWith(verb, suffixes[j])
                                        /\ \A i \in k..(j - 1) : ~endsWith(verb, suffixes[i])]))>>
  ELSE <<>>

detectCompound(verb, suffixes, k) ==
  IF k > Len(suffixes) THEN <<>>
  ELSE IF endsWith(verb, suffixes[k]) /\ Len(verb) > Len(suffixes[k])
       THEN <<slice(verb, 0, -Len(suffixes[k]))>>
       ELSE detectCompound(verb, suffixes, k + 1)

detectSuruCompound(verb) == detectCompound(verb, SURU_COMPOUND_SUFFIXES, 1)

detectKuruCompound(verb) == detectCompound(verb, KURU_COMPOUND_SUFFIXES, 1)

\* mutant: ある is missing from the table of irregular verbs
getIrregularTypeNoAru(verb) ==
  IF verb = <<12354, 12427>> THEN <<>> ELSE lookup(IRREGULAR_VERBS, verb)

\* IRREGULAR_VERBS[verb] || null
getIrregularType(verb) == lookup(IRREGULAR_VERBS, verb)

looksLikeIchidan(verb) ==
  IF Len(verb) < 2 THEN FALSE
  ELSE IF getLastChar(verb) # <<12427>> (* る *) THEN FALSE
  ELSE LET secondLastChar == slice(verb, -2, -1)
       IN  IF isHiragana(secondLastChar[1]) THEN secondLastChar \in ICHIDAN_PRECEDING_CHARS
           ELSE IF verb \in KNOWN_ICHIDAN_VERBS THEN TRUE
           ELSE IF verb \in FALSE_ICHIDAN_VERBS THEN FALSE
           ELSE FALSE

\* mutant: the denylist is not consulted
isActuallyIchidanAlways(verb) == TRUE

isActuallyIchidan(verb) ==
  IF verb \in FALSE_ICHIDAN_VERBS THEN FALSE
  ELSE IF verb \in KNOWN_ICHIDAN_VERBS THEN TRUE
  ELSE TRUE

\* mutant: a five-grade verb has a stem of at least one character
isGodanVerbWithStem(verb) == Len(verb) >= 2 /\ getLastChar(verb) \in GODAN_ENDING_CHARS

isGodanVerb(verb) == getLastChar(verb) \in GODAN_ENDING_CHARS

\* throw new Error(`${code}: ${text}`); code "" for a message without a code prefix
Throw(code, text) == [throws |-> TRUE, message |-> [code |-> code, text |-> text]]

Return(value) == [throws |-> FALSE, value |-> value]

classifyVerb(input_) ==
  IF input_ = <<>> \/ Len(trim(input_)) = 0 THEN
    Throw("EMPTY_INPUT", "Please enter a Japanese verb")
  ELSE
    LET verb == trim(input_)
        suruPrefix == detectSuruCompound(verb)
        kuruPrefix == detectKuruCompound(verb)
        irregularType == getIrregularType(verb)
    IN  IF ~isJapanese(verb) THEN
          Throw("INVALID_CHARACTERS",
                "Please enter a valid Japanese verb using hiragana, katakana, or kanji")
        ELSE IF suruPrefix # <<>> THEN
          Return([dictionaryForm |-> verb, reading |-> verb, romaji |-> hiraganaToRomaji(verb),
                  type |-> "irregular", stem |-> suruPrefix[1],
                  ending |-> sliceFrom(verb, Len(suruPrefix[1])),
                  irregularType |-> "suru", compoundPrefix |-> suruPrefix[1]])
        ELSE IF kuruPrefix # <<>> THEN
          Return([dictionaryForm |-> verb, reading |-> verb, romaji |-> hiraganaToRomaji(verb),
                  type |-> "irregular", stem |-> kuruPrefix[1],
                  ending |-> sliceFrom(verb, Len(kuruPrefix[1])),
                  irregularType |-> "kuru", compoundPrefix |-> kuruPrefix[1]])
        ELSE IF irregularType # <<>> THEN
          Return([dictionaryForm |-> verb, reading |-> verb, romaji |-> hiraganaToRomaji(verb),
                  type |-> "irregular", stem |-> getStem(verb), ending |-> getLastChar(verb),
                  irregularType |-> irregularType[1]])
        ELSE IF looksLikeIchidan(verb) /\ isActuallyIchidan(verb) THEN
          Return([dictionaryForm |-> verb, reading |-> verb, romaji |-> hiraganaToRomaji(verb),
                  type |-> "ichidan", stem |-> getStem(verb), ending |-> <<12427>> (* る *)])
        ELSE IF isGodanVerb(verb) THEN
          Return([dictionaryForm |-> verb, reading |-> verb, romaji |-> hiraganaToRomaji(verb),
                  type |-> "godan", stem |-> getStem(verb), ending |-> getLastChar(verb)])
        ELSE
          Throw("UNKNOWN_VERB",
                "This verb is not recognized. Please check the spelling or try the dictionary form")

(***************************************************************************)
(* Romaji converter (lib/romajiConverter.ts).  It has its own isHiragana   *)
(* and isKatakana, with the ranges of the classifier's.                    *)
(***************************************************************************)
KATAKANA_TO_ROMAJI ==
     (<<12450>> :> <<97>>)  \* ア a
  @@ (<<12452>> :> <<105>>)  \* イ i
  @@ (<<12454>> :> <<117>>)  \* ウ u
  @@ (<<12456>> :> <<101>>)  \* エ e
  @@ (<<12458>> :> <<111>>)  \* オ o
  @@ (<<12459>> :> <<107, 97>>)  \* カ ka
  @@ (<<12461>> :> <<107, 105>>)  \* キ ki
  @@ (<<12463>> :> <<107, 117>>)  \* ク ku
  @@ (<<12465>> :> <<107, 101>>)  \* ケ ke
  @@ (<<12467>> :> <<107, 111>>)  \* コ ko
  @@ (<<12469>> :> <<115, 97>>)  \* サ sa
  @@ (<<12471>> :> <<115, 104, 105>>)  \* シ shi
  @@ (<<12473>> :> <<115, 117>>)  \* ス su
  @@ (<<12475>> :> <<115, 101>>)  \* セ se
  @@ (<<12477>> :> <<115, 111>>)  \* ソ so
  @@ (<<12479>> :> <<116, 97>>)  \* タ ta
  @@ (<<12481>> :> <<99, 104, 105>>)  \* チ chi
  @@ (<<12484>> :> <<116, 115, 117>>)  \* ツ tsu
  @@ (<<12486>> :> <<116, 101>>)  \* テ te
  @@ (<<12488>> :> <<116, 111>>)  \* ト to
  @@ (<<12490>> :> <<110, 97>>)  \* ナ na
  @@ (<<12491>> :> <<110, 105>>)  \* ニ ni
  @@ (<<12492>> :> <<110, 117>>)  \* ヌ nu
  @@ (<<12493>> :> <<110, 101>>)  \* ネ ne
  @@ (<<12494>> :> <<110, 111>>)  \* ノ no
  @@ (<<12495>> :> <<104, 97>>)  \* ハ ha
  @@ (<<12498>> :> <<104, 105>>)  \* ヒ hi
  @@ (<<12501>> :> <<102, 117>>)  \* フ fu
  @@ (<<12504>> :> <<104, 101>>)  \* ヘ he
  @@ (<<12507>> :> <<104, 111>>)  \* ホ ho
  @@ (<<12510>> :> <<109, 97>>)  \* マ ma
  @@ (<<12511>> :> <<109, 105>>)  \* ミ mi
  @@ (<<12512>> :> <<109, 117>>)  \* ム mu
  @@ (<<12513>> :> <<109, 101>>)  \* メ me
  @@ (<<12514>> :> <<109, 111>>)  \* モ mo
  @@ (<<12516>> :> <<121, 97>>)  \* ヤ ya
  @@ (<<12518>> :> <<121, 117>>)  \* ユ yu
  @@ (<<12520>> :> <<121, 111>>)  \* ヨ yo
  @@ (<<12521>> :> <<114, 97>>)  \* ラ ra
  @@ (<<12522>> :> <<114, 105>>)  \* リ ri
  @@ (<<12523>> :> <<114, 117>>)  \* ル ru
  @@ (<<12524>> :> <<114, 101>>)  \* レ re
  @@ (<<12525>> :> <<114, 111>>)  \* ロ ro
  @@ (<<12527>> :> <<119, 97>>)  \* ワ wa
  @@ (<<12530>> :> <<119, 111>>)  \* ヲ wo
  @@ (<<12531>> :> <<110>>)  \* ン n
  @@ (<<12460>> :> <<103, 97>>)  \* ガ ga
  @@ (<<12462>> :> <<103, 105>>)  \* ギ gi
  @@ (<<12464>> :> <<103, 117>>)  \* グ gu
  @@ (<<12466>> :> <<103, 101>>)  \* ゲ ge
  @@ (<<12468>> :> <<103, 111>>)  \* ゴ go
  @@ (<<12470>> :> <<122, 97>>)  \* ザ za
  @@ (<<12472>> :> <<106, 105>>)  \* ジ ji
  @@ (<<12474>> :> <<122, 117>>)  \* ズ zu
  @@ (<<12476>> :> <<122, 101>>)  \* ゼ ze
  @@ (<<12478>> :> <<122, 111>>)  \* ゾ zo
  @@ (<<12480>> :> <<100, 97>>)  \* ダ da
  @@ (<<12482>> :> <<106, 105>>)  \* ヂ ji
  @@ (<<12485>> :> <<122, 117>>)  \* ヅ zu
  @@ (<<12487>> :> <<100, 101>>)  \* デ de
  @@ (<<12489>> :> <<100, 111>>)  \* ド do
  @@ (<<12496>> :> <<98, 97>>)  \* バ ba
  @@ (<<12499>> :> <<98, 105>>)  \* ビ bi
  @@ (<<12502>> :> <<98, 117>>)  \* ブ bu
  @@ (<<12505>> :> <<98, 101>>)  \* ベ be
  @@ (<<12508>> :> <<98, 111>>)  \* ボ bo
  @@ (<<12497>> :> <<112, 97>>)  \* パ pa
  @@ (<<12500>> :> <<112, 105>>)  \* ピ pi
  @@ (<<12503>> :> <<112, 117>>)  \* プ pu
  @@ (<<12506>> :> <<112, 101>>)  \* ペ pe
  @@ (<<12509>> :> <<112, 111>>)  \* ポ po
  @@ (<<12515>> :> <<121, 97>>)  \* ャ ya
  @@ (<<12517>> :> <<121, 117>>)  \* ュ yu
  @@ (<<12519>> :> <<121, 111>>)  \* ョ yo
  @@ (<<12483>> :> <<>>)  \* ッ 
  @@ (<<12449>> :> <<97>>)  \* ァ a
  @@ (<<12451>> :> <<105>>)  \* ィ i
  @@ (<<12453>> :> <<117>>)  \* ゥ u
  @@ (<<12455>> :> <<101>>)  \* ェ e
  @@ (<<12457>> :> <<111>>)  \* ォ o
  @@ (<<12532>> :> <<118, 117>>)  \* ヴ vu
  @@ (<<12540>> :> <<>>)  \* ー 

KATAKANA_COMBINATIONS ==
     (<<12461, 12515>> :> <<107, 121, 97>>)  \* キャ kya
  @@ (<<12461, 12517>> :> <<107, 121, 117>>)  \* キュ kyu
  @@ (<<12461, 12519>> :> <<107, 121, 111>>)  \* キョ kyo
  @@ (<<12471, 12515>> :> <<115, 104, 97>>)  \* シャ sha
  @@ (<<12471, 12517>> :> <<115, 104, 117>>)  \* シュ shu
  @@ (<<12471, 12519>> :> <<115, 104, 111>>)  \* ショ sho
  @@ (<<12481, 12515>> :> <<99, 104, 97>>)  \* チャ cha
  @@ (<<12481, 12517>> :> <<99, 104, 117>>)  \* チュ chu
  @@ (<<12481, 12519>> :> <<99, 104, 111>>)  \* チョ cho
  @@ (<<12491, 12515>> :> <<110, 121, 97>>)  \* ニャ nya
  @@ (<<12491, 12517>> :> <<110, 121, 117>>)  \* ニュ nyu
  @@ (<<12491, 12519>> :> <<110, 121, 111>>)  \* ニョ nyo
  @@ (<<12498, 12515>> :> <<104, 121, 97>>)  \* ヒャ hya
  @@ (<<12498, 12517>> :> <<104, 121, 117>>)  \* ヒュ hyu
  @@ (<<12498, 12519>> :> <<104, 121, 111>>)  \* ヒョ hyo
  @@ (<<12511, 12515>> :> <<109, 121, 97>>)  \* ミャ mya
  @@ (<<12511, 12517>> :> <<109, 121, 117>>)  \* ミュ myu
  @@ (<<12511, 12519>> :> <<109, 121, 111>>)  \* ミョ myo
  @@ (<<12522, 12515>> :> <<114, 121, 97>>)  \* リャ rya
  @@ (<<12522, 12517>> :> <<114, 121, 117>>)  \* リュ ryu
  @@ (<<12522, 12519>> :> <<114, 121, 111>>)  \* リョ ryo
  @@ (<<12462, 12515>> :> <<103, 121, 97>>)  \* ギャ gya
  @@ (<<12462, 12517>> :> <<103, 121, 117>>)  \* ギュ gyu
  @@ (<<12462, 12519>> :> <<103, 121, 111>>)  \* ギョ gyo
  @@ (<<12472, 12515>> :> <<106, 97>>)  \* ジャ ja
  @@ (<<12472, 12517>> :> <<106, 117>>)  \* ジュ ju
  @@ (<<12472, 12519>> :> <<106, 111>>)  \* ジョ jo
  @@ (<<12499, 12515>> :> <<98, 121, 97>>)  \* ビャ bya
  @@ (<<12499, 12517>> :> <<98, 121, 117>>)  \* ビュ byu
  @@ (<<12499, 12519>> :> <<98, 121, 111>>)  \* ビョ byo
  @@ (<<12500, 12515>> :> <<112, 121, 97>>)  \* ピャ pya
  @@ (<<12500, 12517>> :> <<112, 121, 117>>)  \* ピュ pyu
  @@ (<<12500, 12519>> :> <<112, 121, 111>>)  \* ピョ pyo
  @@ (<<12486, 12451>> :> <<116, 105>>)  \* ティ ti
  @@ (<<12487, 12451>> :> <<100, 105>>)  \* ディ di
  @@ (<<12501, 12449>> :> <<102, 97>>)  \* ファ fa
  @@ (<<12501, 12451>> :> <<102, 105>>)  \* フィ fi
  @@ (<<12501, 12455>> :> <<102, 101>>)  \* フェ fe
  @@ (<<12501, 12457>> :> <<102, 111>>)  \* フォ fo
  @@ (<<12532, 12449>> :> <<118, 97>>)  \* ヴァ va
  @@ (<<12532, 12451>> :> <<118, 105>>)  \* ヴィ vi
  @@ (<<12532, 12455>> :> <<118, 101>>)  \* ヴェ ve
  @@ (<<12532, 12457>> :> <<118, 111>>)  \* ヴォ vo

\* getLastVowel(romaji): the last of a i u e o in the text, or ''
getLastVowel(romaji) ==
  LET at == {k \in 1..Len(romaji) : romaji[k] \in {97, 105, 117, 101, 111}}
  IN  IF at = {} THEN <<>>
      ELSE <<romaji[CHOOSE k \in at : \A j \in at : j <= k]>>

\* a small tsu at position i, not the last character: what is added to the result,
\* the first letter of the following combination or of the following character
smallTsu(text, i, combinations, single) ==
  LET combo == IF i + 1 < Len(text) THEN lookup(combinations, SubSeq(text, i + 1, i + 2))
               ELSE <<>>
      nextRomaji == lookup(single, <<text[i + 1]>>)
  IN  IF combo # <<>> THEN <<combo[1][1]>>
      ELSE IF nextRomaji # <<>> /\ Len(nextRomaji[1]) > 0 THEN <<nextRomaji[1][1]>>
      ELSE <<>>

\* table[char] when defined, else the character itself
singleKana(single, char) ==
  IF lookup(single, <<char>>) # <<>> THEN single[<<char>>] ELSE <<char>>

\* toRomaji: the while loop, i 1-based, result the text emitted so far
RECURSIVE toRomajiLoop(_, _, _)
toRomajiLoop(text, i, result) ==
  IF i > Len(text) THEN result
  ELSE IF text[i] = 12387 (* っ *) /\ i < Len(text) THEN
    toRomajiLoop(text, i + 1,
                 result \o smallTsu(text, i, HIRAGANA_COMBINATIONS, HIRAGANA_TO_ROMAJI))
  ELSE IF text[i] = 12483 (* ッ *) /\ i < Len(text) THEN
    toRomajiLoop(text, i + 1,
                 result \o smallTsu(text, i, KATAKANA_COMBINATIONS, KATAKANA_TO_ROMAJI))
  ELSE IF text[i] = 12540 (* ー *) THEN
    toRomajiLoop(text, i + 1, result \o getLastVowel(result))
  ELSE IF /\ isHiragana(text[i])
          /\ i < Len(text)
          /\ lookup(HIRAGANA_COMBINATIONS, SubSeq(text, i, i + 1)) # <<>> THEN
    toRomajiLoop(text, i + 2, result \o HIRAGANA_COMBINATIONS[SubSeq(text, i, i + 1)])
  ELSE IF /\ isKatakana(text[i])
          /\ i < Len(text)
          /\ lookup(KATAKANA_COMBINATIONS, SubSeq(text, i, i + 1)) # <<>> THEN
    toRomajiLoop(text, i + 2, result \o KATAKANA_COMBINATIONS[SubSeq(text, i, i + 1)])
  ELSE IF isHiragana(text[i]) THEN
    toRomajiLoop(text, i + 1, result \o singleKana(HIRAGANA_TO_ROMAJI, text[i]))
  ELSE IF isKatakana(text[i]) THEN
    toRomajiLoop(text, i + 1, result \o singleKana(KATAKANA_TO_ROMAJI, text[i]))
  ELSE
    toRomajiLoop(text, i + 1, result \o <<text[i]>>)

\* toRomaji(text)
toRomaji(text) == toRomajiLoop(text, 1, <<>>)

(***************************************************************************)
(* Romaji to hiragana (lib/engine/romajiConverter.ts, romajiToHiragana).   *)
(***************************************************************************)

\* the assignments map[rom] = hiragana of a loop over Object.entries(table), in
\* the order the loop makes them
assignments(keys, table) == [k \in 1..Len(keys) |-> [rom |-> table[keys[k]], hiragana |-> keys[k]]]

\* single characters first, those with an empty rom left out, then combinations
reverseAssignments ==
  SelectSeq(assignments(HIRAGANA_TO_ROMAJI_KEYS, HIRAGANA_TO_ROMAJI), LAMBDA a : Len(a.rom) > 0)
    \o assignments(HIRAGANA_COMBINATIONS_KEYS, HIRAGANA_COMBINATIONS)

\* the reverse mapping the loops leave: for each rom, the hiragana of the
\* latest assignment
romajiToHiraganaMap ==
  [rom \in {reverseAssignments[k].rom : k \in 1..Len(reverseAssignments)} |->
     reverseAssignments[CHOOSE k \in 1..Len(reverseAssignments) :
                          /\ reverseAssignments[k].rom = rom
                          /\ \A j \in (k + 1)..Len(reverseAssignments) :
                               reverseAssignments[j].rom # rom].hiragana]

\* String.prototype.toLowerCase on the letters A-Z; the other characters the
\* converter is given (a-z, kana) are left as they are
toLowerCase(text) ==
  [k \in 1..Len(text) |-> IF text[k] \in 65..90 THEN text[k] + 32 ELSE text[k]]

\* 'kstcnhfmyrwgzdbp'
DoubledConsonants == {107, 115, 116, 99, 110, 104, 102, 109, 121, 114, 119, 103, 122, 100, 98, 112}

\* the for loop over len = 4..1 at position i (1-based): the text emitted and
\* the number of characters consumed by the first pattern that matches, none
\* when no pattern matches
RECURSIVE matchAt(_, _, _)
matchAt(lowerRomaji, i, len) ==
  IF len < 1 THEN <<>>
  ELSE IF i - 1 + len > Len(lowerRomaji) THEN matchAt(lowerRomaji, i, len - 1)
  ELSE IF /\ len = 2
          /\ lowerRomaji[i] = lowerRomaji[i + 1]
          /\ lowerRomaji[i] \in DoubledConsonants THEN
    <<[text |-> <<12387>> (* っ *), advance |-> 1]>>
  ELSE IF SubSeq(lowerRomaji, i, i + len - 1) \in DOMAIN romajiToHiraganaMap THEN
    <<[text |-> romajiToHiraganaMap[SubSeq(lowerRomaji, i, i + len - 1)], advance |-> len]>>
  ELSE matchAt(lowerRomaji, i, len - 1)

\* result += romaji[i]: an unmatched character is kept as it was typed
keepUnmatched(romaji, lowerRomaji, i) == <<romaji[i]>>

\* the while loop, i 1-based, result the text emitted so far
RECURSIVE romajiToHiraganaLoop(_, _, _, _)
romajiToHiraganaLoop(romaji, lowerRomaji, i, result) ==
  IF i > Len(lowerRomaji) THEN result
  ELSE LET matched == matchAt(lowerRomaji, i, 4)
       IN  IF matched # <<>>
           THEN romajiToHiraganaLoop(romaji, lowerRomaji, i + matched[1].advance,
                                     result \o matched[1].text)
           ELSE romajiToHiraganaLoop(romaji, lowerRomaji, i + 1,
                                     result \o keepUnmatched(romaji, lowerRomaji, i))

romajiToHiragana(romaji) == romajiToHiraganaLoop(romaji, toLowerCase(romaji), 1, <<>>)
(***************************************************************************)
(* Form generators (conjugateIrregular.ts, conjugateGodan.ts,              *)
(* conjugateIchidan.ts).                                                   *)
(***************************************************************************)

\* Array.prototype.find with the predicate f => f.id === id: the first match, or undefined
find(array, id) ==
  LET hits == {k \in 1..Len(array) : array[k].id = id}
  IN  IF hits = {} THEN <<>>
      ELSE <<array[CHOOSE k \in hits : \A j \in hits : k <= j]>>

\* mutant: every id resolves to the first definition of the table
findFormDefFirst(id) == <<CONJUGATION_FORMS[1]>>

\* const formDef = CONJUGATION_FORMS.find(f => f.id === id)
findFormDef(id) == find(CONJUGATION_FORMS, id)

\* the body of createForm once formDef is bound
createFormFrom(formDef, id, hiragana, kanji) ==
  IF formDef = <<>> THEN Throw("", "Unknown form ID")
  ELSE Return([id |-> id, name |-> formDef[1].name, nameJapanese |-> formDef[1].nameJa,
               kanji |-> kanji, hiragana |-> hiragana, romaji |-> hiraganaToRomaji(hiragana),
               formality |-> formDef[1].formality, category |-> formDef[1].category])

\* createForm(id, hiragana, kanji); the same helper in each generator module
\* mutant: the two renderings are passed in the other order
createFormSwapped(id, hiragana, kanji) == createFormFrom(findFormDef(id), id, kanji, hiragana)

createForm(id, hiragana, kanji) == createFormFrom(findFormDef(id), id, hiragana, kanji)

\* made[k] is the outcome of the k-th createForm call: the first call that throws ends
\* the generator, otherwise the generator returns the forms in push order
returnForms(made) ==
  LET thrown == {k \in 1..Len(made) : made[k].throws}
  IN  IF thrown # {} THEN made[CHOOSE k \in thrown : \A j \in thrown : k <= j]
      ELSE Return([k \in 1..Len(made) |-> made[k].value])

\* const forms = []; forms.push(createForm(...)) ...; return forms
\* calls[k] is the argument list of the k-th createForm call, <<id, hiragana>> or
\* <<id, hiragana, kanji>>: the parameter kanji defaults to hiragana
pushAll(calls) ==
  returnForms([k \in 1..Len(calls) |->
                 createForm(calls[k][1], calls[k][2],
                            IF Len(calls[k]) = 3 THEN calls[k][3] ELSE calls[k][2])])

\* mutant: the compound prefix is dropped from every form
prefixNone(verb) == <<>>

\* verb.compoundPrefix || ''
prefixOf(verb) ==
  IF "compoundPrefix" \in DOMAIN verb /\ verb.compoundPrefix # <<>> THEN verb.compoundPrefix
  ELSE <<>>

conjugateSuru(verb) ==
  LET prefix == prefixOf(verb)
  IN  pushAll(<<
      <<"dictionary", prefix \o <<12377, 12427>>>>,  \* prefix + 'する'
      <<"te", prefix \o <<12375, 12390>>>>,  \* prefix + 'して'
      <<"masu", prefix \o <<12375, 12414, 12377>>>>,  \* prefix + 'します'
      <<"masen", prefix \o <<12375, 12414, 12379, 12435>>>>,  \* prefix + 'しません'
      <<"mashita", prefix \o <<12375, 12414, 12375, 12383>>>>,  \* prefix + 'しました'
      <<"masen-deshita", prefix \o <<12375, 12414, 12379, 12435, 12391, 12375, 12383>>>>,  \* prefix + 'しませんでした'
      <<"nai", prefix \o <<12375, 12394, 12356>>>>,  \* prefix + 'しない'
      <<"nakatta", prefix \o <<12375, 12394, 12363, 12387, 12383>>>>,  \* prefix + 'しなかった'
      <<"ta", prefix \o <<12375, 12383>>>>,  \* prefix + 'した'
      <<"volitional-plain", prefix \o <<12375, 12424, 12358>>>>,  \* prefix + 'しよう'
      <<"volitional-polite", prefix \o <<12375, 12414, 12375, 12423, 12358>>>>,  \* prefix + 'しましょう'
      <<"potential-plain", prefix \o <<12391, 12365, 12427>>>>,  \* prefix + 'できる'
      <<"potential-polite", prefix \o <<12391, 12365, 12414, 12377>>>>,  \* prefix + 'できます'
      <<"potential-negative", prefix \o <<12391, 12365, 12394, 12356>>>>,  \* prefix + 'できない'
      <<"passive-plain", prefix \o <<12373, 12428, 12427>>>>,  \* prefix + 'される'
      <<"passive-polite", prefix \o <<12373, 12428, 12414, 12377>>>>,  \* prefix + 'されます'
      <<"causative-plain", prefix \o <<12373, 12379, 12427>>>>,  \* prefix + 'させる'
      <<"causative-polite", prefix \o <<12373, 12379, 12414, 12377>>>>,  \* prefix + 'させます'
      <<"causative-passive-plain", prefix \o <<12373, 12379, 12425, 12428, 12427>>>>,  \* prefix + 'させられる'
      <<"causative-passive-polite", prefix \o <<12373, 12379, 12425, 12428, 12414, 12377>>>>,  \* prefix + 'させられます'
      <<"imperative-plain", prefix \o <<12375, 12429>>>>,  \* prefix + 'しろ'
      <<"imperative-polite", prefix \o <<12375, 12390, 12367, 12384, 12373, 12356>>>>,  \* prefix + 'してください'
      <<"imperative-negative", prefix \o <<12377, 12427, 12394>>>>,  \* prefix + 'するな'
      <<"conditional-ba", prefix \o <<12377, 12428, 12400>>>>,  \* prefix + 'すれば'
      <<"conditional-tara", prefix \o <<12375, 12383, 12425>>>>,  \* prefix + 'したら'
      <<"conditional-nara", prefix \o <<12377, 12427, 12394, 12425>>>>,  \* prefix + 'するなら'
      <<"tai", prefix \o <<12375, 12383, 12356>>>>,  \* prefix + 'したい'
      <<"takunai", prefix \o <<12375, 12383, 12367, 12394, 12356>>>>,  \* prefix + 'したくない'
      <<"takatta", prefix \o <<12375, 12383, 12363, 12387, 12383>>>>,  \* prefix + 'したかった'
      <<"takunakatta", prefix \o <<12375, 12383, 12367, 12394, 12363, 12387, 12383>>>>,  \* prefix + 'したくなかった'
      <<"progressive-present", prefix \o <<12375, 12390, 12356, 12427>>>>,  \* prefix + 'している'
      <<"progressive-past", prefix \o <<12375, 12390, 12356, 12383>>>>,  \* prefix + 'していた'
      <<"honorific-respectful", <<12362>> \o prefix \o <<12375, 12395, 12394, 12427>>>>,  \* 'お' + prefix + 'しになる'
      <<"honorific-humble", <<12362>> \o prefix \o <<12375, 12377, 12427>>>>  \* 'お' + prefix + 'しする'
      >>)

conjugateKuru(verb) ==
  LET prefix == prefixOf(verb)
  IN  pushAll(<<
      <<"dictionary", prefix \o <<12367, 12427>>, prefix \o <<26469, 12427>>>>,  \* prefix + 'くる' , prefix + '来る'
      <<"te", prefix \o <<12365, 12390>>, prefix \o <<26469, 12390>>>>,  \* prefix + 'きて' , prefix + '来て'
      <<"masu", prefix \o <<12365, 12414, 12377>>, prefix \o <<26469, 12414, 12377>>>>,  \* prefix + 'きます' , prefix + '来ます'
      <<"masen", prefix \o <<12365, 12414, 12379, 12435>>, prefix \o <<26469, 12414, 12379, 12435>>>>,  \* prefix + 'きません' , prefix + '来ません'
      <<"mashita", prefix \o <<12365, 12414, 12375, 12383>>, prefix \o <<26469, 12414, 12375, 12383>>>>,  \* prefix + 'きました' , prefix + '来ました'
      <<"masen-deshita", prefix \o <<12365, 12414, 12379, 12435, 12391, 12375, 12383>>, prefix \o <<26469, 12414, 12379, 12435, 12391, 12375, 12383>>>>,  \* prefix + 'きませんでした' , prefix + '来ませんでした'
      <<"nai", prefix \o <<12371, 12394, 12356>>, prefix \o <<26469, 12394, 12356>>>>,  \* prefix + 'こない' , prefix + '来ない'
      <<"nakatta", prefix \o <<12371, 12394, 12363, 12387, 12383>>, prefix \o <<26469, 12394, 12363, 12387, 12383>>>>,  \* prefix + 'こなかった' , prefix + '来なかった'
      <<"ta", prefix \o <<12365, 12383>>, prefix \o <<26469, 12383>>>>,  \* prefix + 'きた' , prefix + '来た'
      <<"volitional-plain", prefix \o <<12371, 12424, 12358>>, prefix \o <<26469, 12424, 12358>>>>,  \* prefix + 'こよう' , prefix + '来よう'
      <<"volitional-polite", prefix \o <<12365, 12414, 12375, 12423, 12358>>, prefix \o <<26469, 12414, 12375, 12423, 12358>>>>,  \* prefix + 'きましょう' , prefix + '来ましょう'
      <<"potential-plain", prefix \o <<12371, 12425, 12428, 12427>>, prefix \o <<26469, 12425, 12428, 12427>>>>,  \* prefix + 'こられる' , prefix + '来られる'
      <<"potential-polite", prefix \o <<12371, 12425, 12428, 12414, 12377>>, prefix \o <<26469, 12425, 12428, 12414, 12377>>>>,  \* prefix + 'こられます' , prefix + '来られます'
      <<"potential-negative", prefix \o <<12371, 12425, 12428, 12394, 12356>>, prefix \o <<26469, 12425, 12428, 12394, 12356>>>>,  \* prefix + 'こられない' , prefix + '来られない'
      <<"passive-plain", prefix \o <<12371, 12425, 12428, 12427>>, prefix \o <<26469, 12425, 12428, 12427>>>>,  \* prefix + 'こられる' , prefix + '来られる'
      <<"passive-polite", prefix \o <<12371, 12425, 12428, 12414, 12377>>, prefix \o <<26469, 12425, 12428, 12414, 12377>>>>,  \* prefix + 'こられます' , prefix + '来られます'
      <<"causative-plain", prefix \o <<12371, 12373, 12379, 12427>>, prefix \o <<26469, 12373, 12379, 12427>>>>,  \* prefix + 'こさせる' , prefix + '来させる'
      <<"causative-polite", prefix \o <<12371, 12373, 12379, 12414, 12377>>, prefix \o <<26469, 12373, 12379, 12414, 12377>>>>,  \* prefix + 'こさせます' , prefix + '来させます'
      <<"causative-passive-plain", prefix \o <<12371, 12373, 12379, 12425, 12428, 12427>>, prefix \o <<26469, 12373, 12379, 12425, 12428, 12427>>>>,  \* prefix + 'こさせられる' , prefix + '来させられる'
      <<"causative-passive-polite", prefix \o <<12371, 12373, 12379, 12425, 12428, 12414, 12377>>, prefix \o <<26469, 12373, 12379, 12425, 12428, 12414, 12377>>>>,  \* prefix + 'こさせられます' , prefix + '来させられます'
      <<"imperative-plain", prefix \o <<12371, 12356>>, prefix \o <<26469, 12356>>>>,  \* prefix + 'こい' , prefix + '来い'
      <<"imperative-polite", prefix \o <<12365, 12390, 12367, 12384, 12373, 12356>>, prefix \o <<26469, 12390, 12367, 12384, 12373, 12356>>>>,  \* prefix + 'きてください' , prefix + '来てください'
      <<"imperative-negative", prefix \o <<12367, 12427, 12394>>, prefix \o <<26469, 12427, 12394>>>>,  \* prefix + 'くるな' , prefix + '来るな'
      <<"conditional-ba", prefix \o <<12367, 12428, 12400>>, prefix \o <<26469, 12428, 12400>>>>,  \* prefix + 'くれば' , prefix + '来れば'
      <<"conditional-tara", prefix \o <<12365, 12383, 12425>>, prefix \o <<26469, 12383, 12425>>>>,  \* prefix + 'きたら' , prefix + '来たら'
      <<"conditional-nara", prefix \o <<12367, 12427, 12394, 12425>>, prefix \o <<26469, 12427, 12394, 12425>>>>,  \* prefix + 'くるなら' , prefix + '来るなら'
      <<"tai", prefix \o <<12365, 12383, 12356>>, prefix \o <<26469, 12383, 12356>>>>,  \* prefix + 'きたい' , prefix + '来たい'
      <<"takunai", prefix \o <<12365, 12383, 12367, 12394, 12356>>, prefix \o <<26469, 12383, 12367, 12394, 12356>>>>,  \* prefix + 'きたくない' , prefix + '来たくない'
      <<"takatta", prefix \o <<12365, 12383, 12363, 12387, 12383>>, prefix \o <<26469, 12383, 12363, 12387, 12383>>>>,  \* prefix + 'きたかった' , prefix + '来たかった'
      <<"takunakatta", prefix \o <<12365, 12383, 12367, 12394, 12363, 12387, 12383>>, prefix \o <<26469, 12383, 12367, 12394, 12363, 12387, 12383>>>>,  \* prefix + 'きたくなかった' , prefix + '来たくなかった'
      <<"progressive-present", prefix \o <<12365, 12390, 12356, 12427>>, prefix \o <<26469, 12390, 12356, 12427>>>>,  \* prefix + 'きている' , prefix + '来ている'
      <<"progressive-past", prefix \o <<12365, 12390, 12356, 12383>>, prefix \o <<26469, 12390, 12356, 12383>>>>,  \* prefix + 'きていた' , prefix + '来ていた'
      <<"honorific-respectful", <<12362>> \o prefix \o <<12365, 12395, 12394, 12427>>, <<12362>> \o prefix \o <<26469, 12395, 12394, 12427>>>>,  \* 'お' + prefix + 'きになる' , 'お' + prefix + '来になる'
      <<"honorific-humble", <<12362>> \o prefix \o <<12365, 12377, 12427>>, <<12362>> \o prefix \o <<26469, 12377, 12427>>>>  \* 'お' + prefix + 'きする' , 'お' + prefix + '来する'
      >>)

conjugateAru(verb) ==
  pushAll(<<
      <<"dictionary", <<12354, 12427>>>>,  \* 'ある'
      <<"te", <<12354, 12387, 12390>>>>,  \* 'あって'
      <<"masu", <<12354, 12426, 12414, 12377>>>>,  \* 'あります'
      <<"masen", <<12354, 12426, 12414, 12379, 12435>>>>,  \* 'ありません'
      <<"mashita", <<12354, 12426, 12414, 12375, 12383>>>>,  \* 'ありました'
      <<"masen-deshita", <<12354, 12426, 12414, 12379, 12435, 12391, 12375, 12383>>>>,  \* 'ありませんでした'
      <<"nai", <<12394, 12356>>>>,  \* 'ない'
      <<"nakatta", <<12394, 12363, 12387, 12383>>>>,  \* 'なかった'
      <<"ta", <<12354, 12387, 12383>>>>,  \* 'あった'
      <<"volitional-plain", <<12354, 12429, 12358>>>>,  \* 'あろう'
      <<"volitional-polite", <<12354, 12426, 12414, 12375, 12423, 12358>>>>,  \* 'ありましょう'
      <<"potential-plain", <<12354, 12426, 12360, 12427>>>>,  \* 'ありえる'
      <<"potential-polite", <<12354, 12426, 12360, 12414, 12377>>>>,  \* 'ありえます'
      <<"potential-negative", <<12354, 12426, 12360, 12394, 12356>>>>,  \* 'ありえない'
      <<"passive-plain", <<12354, 12425, 12428, 12427>>>>,  \* 'あられる'
      <<"passive-polite", <<12354, 12425, 12428, 12414, 12377>>>>,  \* 'あられます'
      <<"causative-plain", <<12354, 12425, 12379, 12427>>>>,  \* 'あらせる'
      <<"causative-polite", <<12354, 12425, 12379, 12414, 12377>>>>,  \* 'あらせます'
      <<"causative-passive-plain", <<12354, 12425, 12379, 12425, 12428, 12427>>>>,  \* 'あらせられる'
      <<"causative-passive-polite", <<12354, 12425, 12379, 12425, 12428, 12414, 12377>>>>,  \* 'あらせられます'
      <<"imperative-plain", <<12354, 12428>>>>,  \* 'あれ'
      <<"imperative-polite", <<12354, 12387, 12390, 12367, 12384, 12373, 12356>>>>,  \* 'あってください'
      <<"imperative-negative", <<12354, 12427, 12394>>>>,  \* 'あるな'
      <<"conditional-ba", <<12354, 12428, 12400>>>>,  \* 'あれば'
      <<"conditional-tara", <<12354, 12387, 12383, 12425>>>>,  \* 'あったら'
      <<"conditional-nara", <<12354, 12427, 12394, 12425>>>>,  \* 'あるなら'
      <<"tai", <<12354, 12426, 12383, 12356>>>>,  \* 'ありたい'
      <<"takunai", <<12354, 12426, 12383, 12367, 12394, 12356>>>>,  \* 'ありたくない'
      <<"takatta", <<12354, 12426, 12383, 12363, 12387, 12383>>>>,  \* 'ありたかった'
      <<"takunakatta", <<12354, 12426, 12383, 12367, 12394, 12363, 12387, 12383>>>>,  \* 'ありたくなかった'
      <<"progressive-present", <<12354, 12387, 12390, 12356, 12427>>>>,  \* 'あっている'
      <<"progressive-past", <<12354, 12387, 12390, 12356, 12383>>>>,  \* 'あっていた'
      <<"honorific-respectful", <<12362, 12354, 12426, 12395, 12394, 12427>>>>,  \* 'おありになる'
      <<"honorific-humble", <<12362, 12354, 12426, 12377, 12427>>>>  \* 'おありする'
      >>)

conjugateIku(verb) ==
  pushAll(<<
      <<"dictionary", <<12356, 12367>>, <<34892, 12367>>>>,  \* 'いく' , '行く'
      <<"te", <<12356, 12387, 12390>>, <<34892, 12387, 12390>>>>,  \* 'いって' , '行って'
      <<"masu", <<12356, 12365, 12414, 12377>>, <<34892, 12365, 12414, 12377>>>>,  \* 'いきます' , '行きます'
      <<"masen", <<12356, 12365, 12414, 12379, 12435>>, <<34892, 12365, 12414, 12379, 12435>>>>,  \* 'いきません' , '行きません'
      <<"mashita", <<12356, 12365, 12414, 12375, 12383>>, <<34892, 12365, 12414, 12375, 12383>>>>,  \* 'いきました' , '行きました'
      <<"masen-deshita", <<12356, 12365, 12414, 12379, 12435, 12391, 12375, 12383>>, <<34892, 12365, 12414, 12379, 12435, 12391, 12375, 12383>>>>,  \* 'いきませんでした' , '行きませんでした'
      <<"nai", <<12356, 12363, 12394, 12356>>, <<34892, 12363, 12394, 12356>>>>,  \* 'いかない' , '行かない'
      <<"nakatta", <<12356, 12363, 12394, 12363, 12387, 12383>>, <<34892, 12363, 12394, 12363, 12387, 12383>>>>,  \* 'いかなかった' , '行かなかった'
      <<"ta", <<12356, 12387, 12383>>, <<34892, 12387, 12383>>>>,  \* 'いった' , '行った'
      <<"volitional-plain", <<12356, 12371, 12358>>, <<34892, 12371, 12358>>>>,  \* 'いこう' , '行こう'
      <<"volitional-polite", <<12356, 12365, 12414, 12375, 12423, 12358>>, <<34892, 12365, 12414, 12375, 12423, 12358>>>>,  \* 'いきましょう' , '行きましょう'
      <<"potential-plain", <<12356, 12369, 12427>>, <<34892, 12369, 12427>>>>,  \* 'いける' , '行ける'
      <<"potential-polite", <<12356, 12369, 12414, 12377>>, <<34892, 12369, 12414, 12377>>>>,  \* 'いけます' , '行けます'
      <<"potential-negative", <<12356, 12369, 12394, 12356>>, <<34892, 12369, 12394, 12356>>>>,  \* 'いけない' , '行けない'
      <<"passive-plain", <<12356, 12363, 12428, 12427>>, <<34892, 12363, 12428, 12427>>>>,  \* 'いかれる' , '行かれる'
      <<"passive-polite", <<12356, 12363, 12428, 12414, 12377>>, <<34892, 12363, 12428, 12414, 12377>>>>,  \* 'いかれます' , '行かれます'
      <<"causative-plain", <<12356, 12363, 12379, 12427>>, <<34892, 12363, 12379, 12427>>>>,  \* 'いかせる' , '行かせる'
      <<"causative-polite", <<12356, 12363, 12379, 12414, 12377>>, <<34892, 12363, 12379, 12414, 12377>>>>,  \* 'いかせます' , '行かせます'
      <<"causative-passive-plain", <<12356, 12363, 12379, 12425, 12428, 12427>>, <<34892, 12363, 12379, 12425, 12428, 12427>>>>,  \* 'いかせられる' , '行かせられる'
      <<"causative-passive-polite", <<12356, 12363, 12379, 12425, 12428, 12414, 12377>>, <<34892, 12363, 12379, 12425, 12428, 12414, 12377>>>>,  \* 'いかせられます' , '行かせられます'
      <<"imperative-plain", <<12356, 12369>>, <<34892, 12369>>>>,  \* 'いけ' , '行け'
      <<"imperative-polite", <<12356, 12387, 12390, 12367, 12384, 12373, 12356>>, <<34892, 12387, 12390, 12367, 12384, 12373, 12356>>>>,  \* 'いってください' , '行ってください'
      <<"imperative-negative", <<12356, 12367, 12394>>, <<34892, 12367, 12394>>>>,  \* 'いくな' , '行くな'
      <<"conditional-ba", <<12356, 12369, 12400>>, <<34892, 12369, 12400>>>>,  \* 'いけば' , '行けば'
      <<"conditional-tara", <<12356, 12387, 12383, 12425>>, <<34892, 12387, 12383, 12425>>>>,  \* 'いったら' , '行ったら'
      <<"conditional-nara", <<12356, 12367, 12394, 12425>>, <<34892, 12367, 12394, 12425>>>>,  \* 'いくなら' , '行くなら'
      <<"tai", <<12356, 12365, 12383, 12356>>, <<34892, 12365, 12383, 12356>>>>,  \* 'いきたい' , '行きたい'
      <<"takunai", <<12356, 12365, 12383, 12367, 12394, 12356>>, <<34892, 12365, 12383, 12367, 12394, 12356>>>>,  \* 'いきたくない' , '行きたくない'
      <<"takatta", <<12356, 12365, 12383, 12363, 12387, 12383>>, <<34892, 12365, 12383, 12363, 12387, 12383>>>>,  \* 'いきたかった' , '行きたかった'
      <<"takunakatta", <<12356, 12365, 12383, 12367, 12394, 12363, 12387, 12383>>, <<34892, 12365, 12383, 12367, 12394, 12363, 12387, 12383>>>>,  \* 'いきたくなかった' , '行きたくなかった'
      <<"progressive-present", <<12356, 12387, 12390, 12356, 12427>>, <<34892, 12387, 12390, 12356, 12427>>>>,  \* 'いっている' , '行っている'
      <<"progressive-past", <<12356, 12387, 12390, 12356, 12383>>, <<34892, 12387, 12390, 12356, 12383>>>>,  \* 'いっていた' , '行っていた'
      <<"honorific-respectful", <<12362, 12356, 12365, 12395, 12394, 12427>>, <<12362, 34892, 12365, 12395, 12394, 12427>>>>,  \* 'おいきになる' , 'お行きになる'
      <<"honorific-humble", <<12362, 12356, 12365, 12377, 12427>>, <<12362, 34892, 12365, 12377, 12427>>>>  \* 'おいきする' , 'お行きする'
      >>)

conjugateHonorific(verb) ==
  LET stem == verb.stem
  IN  pushAll(<<
      <<"dictionary", verb.dictionaryForm>>,  \* verb.dictionaryForm
      <<"te", stem \o <<12387, 12390>>>>,  \* stem + 'って'
      <<"masu", stem \o <<12356, 12414, 12377>>>>,  \* stem + 'います'
      <<"masen", stem \o <<12356, 12414, 12379, 12435>>>>,  \* stem + 'いません'
      <<"mashita", stem \o <<12356, 12414, 12375, 12383>>>>,  \* stem + 'いました'
      <<"masen-deshita", stem \o <<12356, 12414, 12379, 12435, 12391, 12375, 12383>>>>,  \* stem + 'いませんでした'
      <<"nai", stem \o <<12425, 12394, 12356>>>>,  \* stem + 'らない'
      <<"nakatta", stem \o <<12425, 12394, 12363, 12387, 12383>>>>,  \* stem + 'らなかった'
      <<"ta", stem \o <<12387, 12383>>>>,  \* stem + 'った'
      <<"volitional-plain", stem \o <<12429, 12358>>>>,  \* stem + 'ろう'
      <<"volitional-polite", stem \o <<12356, 12414, 12375, 12423, 12358>>>>,  \* stem + 'いましょう'
      <<"potential-plain", stem \o <<12428, 12427>>>>,  \* stem + 'れる'
      <<"potential-polite", stem \o <<12428, 12414, 12377>>>>,  \* stem + 'れます'
      <<"potential-negative", stem \o <<12428, 12394, 12356>>>>,  \* stem + 'れない'
      <<"passive-plain", stem \o <<12425, 12428, 12427>>>>,  \* stem + 'られる'
      <<"passive-polite", stem \o <<12425, 12428, 12414, 12377>>>>,  \* stem + 'られます'
      <<"causative-plain", stem \o <<12425, 12379, 12427>>>>,  \* stem + 'らせる'
      <<"causative-polite", stem \o <<12425, 12379, 12414, 12377>>>>,  \* stem + 'らせます'
      <<"causative-passive-plain", stem \o <<12425, 12379, 12425, 12428, 12427>>>>,  \* stem + 'らせられる'
      <<"causative-passive-polite", stem \o <<12425, 12379, 12425, 12428, 12414, 12377>>>>,  \* stem + 'らせられます'
      <<"imperative-plain", stem \o <<12356>>>>,  \* stem + 'い'
      <<"imperative-polite", stem \o <<12387, 12390, 12367, 12384, 12373, 12356>>>>,  \* stem + 'ってください'
      <<"imperative-negative", verb.dictionaryForm \o <<12394>>>>,  \* verb.dictionaryForm + 'な'
      <<"conditional-ba", stem \o <<12428, 12400>>>>,  \* stem + 'れば'
      <<"conditional-tara", stem \o <<12387, 12383, 12425>>>>,  \* stem + 'ったら'
      <<"conditional-nara", verb.dictionaryForm \o <<12394, 12425>>>>,  \* verb.dictionaryForm + 'なら'
      <<"tai", stem \o <<12356, 12383, 12356>>>>,  \* stem + 'いたい'
      <<"takunai", stem \o <<12356, 12383, 12367, 12394, 12356>>>>,  \* stem + 'いたくない'
      <<"takatta", stem \o <<12356, 12383, 12363, 12387, 12383>>>>,  \* stem + 'いたかった'
      <<"takunakatta", stem \o <<12356, 12383, 12367, 12394, 12363, 12387, 12383>>>>,  \* stem + 'いたくなかった'
      <<"progressive-present", stem \o <<12387, 12390, 12356, 12427>>>>,  \* stem + 'っている'
      <<"progressive-past", stem \o <<12387, 12390, 12356, 12383>>>>,  \* stem + 'っていた'
      <<"honorific-respectful", <<12362>> \o stem \o <<12356, 12395, 12394, 12427>>>>,  \* 'お' + stem + 'いになる'
      <<"honorific-humble", <<12362>> \o stem \o <<12356, 12377, 12427>>>>  \* 'お' + stem + 'いする'
      >>)

\* verb.irregularType, undefined when the field is absent
irregularTypeOf(verb) == IF "irregularType" \in DOMAIN verb THEN verb.irregularType ELSE "undefined"

\* mutant: the go-irregular verb is handed to the generator of ある
conjugateIrregularIkuAsAru(verb) ==
  IF verb.type # "irregular" THEN Throw("", "conjugateIrregular called with non-irregular verb")
  ELSE CASE irregularTypeOf(verb) = "suru" -> conjugateSuru(verb)
         [] irregularTypeOf(verb) = "kuru" -> conjugateKuru(verb)
         [] irregularTypeOf(verb) \in {"aru", "iku"} -> conjugateAru(verb)
         [] irregularTypeOf(verb) = "honorific" -> conjugateHonorific(verb)
         [] OTHER -> Throw("", "Unknown irregular type")

conjugateIrregular(verb) ==
  IF verb.type # "irregular" THEN Throw("", "conjugateIrregular called with non-irregular verb")
  ELSE CASE irregularTypeOf(verb) = "suru" -> conjugateSuru(verb)
         [] irregularTypeOf(verb) = "kuru" -> conjugateKuru(verb)
         [] irregularTypeOf(verb) = "aru" -> conjugateAru(verb)
         [] irregularTypeOf(verb) = "iku" -> conjugateIku(verb)
         [] irregularTypeOf(verb) = "honorific" -> conjugateHonorific(verb)
         [] OTHER -> Throw("", "Unknown irregular type")

\* mutant: the e-grade stem leaves out the grade's kana
getGodanStemBare(verb, grade) ==
  IF verb.ending \notin DOMAIN GODAN_ENDINGS THEN Throw("", "Unknown Godan ending")
  ELSE IF grade = "u" THEN Return(verb.dictionaryForm)
  ELSE IF grade = "e" THEN Return(verb.stem)
  ELSE Return(verb.stem \o GODAN_ENDINGS[verb.ending][grade])

\* mutant: the table of five-grade endings has no row for ぬ
getGodanStemNoNu(verb, grade) ==
  IF verb.ending \notin DOMAIN GODAN_ENDINGS \ {<<12396>>} THEN Throw("", "Unknown Godan ending")
  ELSE IF grade = "u" THEN Return(verb.dictionaryForm)
  ELSE Return(verb.stem \o GODAN_ENDINGS[verb.ending][grade])

\* getGodanStem(verb, grade), grade one of a i u e o te ta
getGodanStem(verb, grade) ==
  IF verb.ending \notin DOMAIN GODAN_ENDINGS THEN Throw("", "Unknown Godan ending")
  ELSE IF grade = "u" THEN Return(verb.dictionaryForm)
  ELSE Return(verb.stem \o GODAN_ENDINGS[verb.ending][grade])

isIkuVerb(verb) ==
  \/ verb.dictionaryForm = <<34892, 12367>>
  \/ verb.dictionaryForm = <<12356, 12367>>
  \/ (irregularTypeOf(verb) = "iku" /\ verb.type = "irregular")

\* mutant: no special case for the go-irregular verb
getGodanTeFormRegular(verb) == getGodanStem(verb, "te")

getGodanTeForm(verb) ==
  IF isIkuVerb(verb) THEN Return(verb.stem \o <<12387, 12390>>)
  ELSE getGodanStem(verb, "te")

getGodanTaForm(verb) ==
  IF isIkuVerb(verb) THEN Return(verb.stem \o <<12387, 12383>>)
  ELSE getGodanStem(verb, "ta")

conjugateGodan(verb) ==
  IF verb.type # "godan" THEN Throw("", "conjugateGodan called with non-Godan verb")
  ELSE IF getGodanTeForm(verb).throws THEN getGodanTeForm(verb)
  ELSE IF getGodanStem(verb, "i").throws THEN getGodanStem(verb, "i")
  ELSE
    LET teForm == getGodanTeForm(verb).value
        taForm == getGodanTaForm(verb).value
        masuStem == getGodanStem(verb, "i").value
        naiStem == getGodanStem(verb, "a").value
        volitionalStem == getGodanStem(verb, "o").value
        potentialStem == getGodanStem(verb, "e").value
    IN  pushAll(<<
      <<"dictionary", verb.dictionaryForm>>,  \* verb.dictionaryForm
      <<"te", teForm>>,  \* getGodanTeForm(verb)
      <<"masu", masuStem \o <<12414, 12377>>>>,  \* masuStem + 'ます'
      <<"masen", masuStem \o <<12414, 12379, 12435>>>>,  \* masuStem + 'ません'
      <<"mashita", masuStem \o <<12414, 12375, 12383>>>>,  \* masuStem + 'ました'
      <<"masen-deshita", masuStem \o <<12414, 12379, 12435, 12391, 12375, 12383>>>>,  \* masuStem + 'ませんでした'
      <<"nai", naiStem \o <<12394, 12356>>>>,  \* naiStem + 'ない'
      <<"nakatta", naiStem \o <<12394, 12363, 12387, 12383>>>>,  \* naiStem + 'なかった'
      <<"ta", taForm>>,  \* getGodanTaForm(verb)
      <<"volitional-plain", volitionalStem \o <<12358>>>>,  \* volitionalStem + 'う'
      <<"volitional-polite", masuStem \o <<12414, 12375, 12423, 12358>>>>,  \* masuStem + 'ましょう'
      <<"potential-plain", potentialStem \o <<12427>>>>,  \* potentialStem + 'る'
      <<"potential-polite", potentialStem \o <<12414, 12377>>>>,  \* potentialStem + 'ます'
      <<"potential-negative", potentialStem \o <<12394, 12356>>>>,  \* potentialStem + 'ない'
      <<"passive-plain", naiStem \o <<12428, 12427>>>>,  \* naiStem + 'れる'
      <<"passive-polite", naiStem \o <<12428, 12414, 12377>>>>,  \* naiStem + 'れます'
      <<"causative-plain", naiStem \o <<12379, 12427>>>>,  \* naiStem + 'せる'
      <<"causative-polite", naiStem \o <<12379, 12414, 12377>>>>,  \* naiStem + 'せます'
      <<"causative-passive-plain", naiStem \o <<12379, 12425, 12428, 12427>>>>,  \* naiStem + 'せられる'
      <<"causative-passive-polite", naiStem \o <<12379, 12425, 12428, 12414, 12377>>>>,  \* naiStem + 'せられます'
      <<"imperative-plain", potentialStem>>,  \* potentialStem
      <<"imperative-polite", teForm \o <<12367, 12384, 12373, 12356>>>>,  \* getGodanTeForm(verb) + 'ください'
      <<"imperative-negative", verb.dictionaryForm \o <<12394>>>>,  \* verb.dictionaryForm + 'な'
      <<"conditional-ba", potentialStem \o <<12400>>>>,  \* potentialStem + 'ば'
      <<"conditional-tara", taForm \o <<12425>>>>,  \* getGodanTaForm(verb) + 'ら'
      <<"conditional-nara", verb.dictionaryForm \o <<12394, 12425>>>>,  \* verb.dictionaryForm + 'なら'
      <<"tai", masuStem \o <<12383, 12356>>>>,  \* masuStem + 'たい'
      <<"takunai", masuStem \o <<12383, 12367, 12394, 12356>>>>,  \* masuStem + 'たくない'
      <<"takatta", masuStem \o <<12383, 12363, 12387, 12383>>>>,  \* masuStem + 'たかった'
      <<"takunakatta", masuStem \o <<12383, 12367, 12394, 12363, 12387, 12383>>>>,  \* masuStem + 'たくなかった'
      <<"progressive-present", teForm \o <<12356, 12427>>>>,  \* getGodanTeForm(verb) + 'いる'
      <<"progressive-past", teForm \o <<12356, 12383>>>>,  \* getGodanTeForm(verb) + 'いた'
      <<"honorific-respectful", <<12362>> \o masuStem \o <<12395, 12394, 12427>>>>,  \* 'お' + masuStem + 'になる'
      <<"honorific-humble", <<12362>> \o masuStem \o <<12377, 12427>>>>  \* 'お' + masuStem + 'する'
        >>)

getIchidanStem(verb) == verb.stem

conjugateIchidan(verb) ==
  IF verb.type # "ichidan" THEN Throw("", "conjugateIchidan called with non-Ichidan verb")
  ELSE
    LET stem == getIchidanStem(verb)
    IN  pushAll(<<
      <<"dictionary", verb.dictionaryForm>>,  \* verb.dictionaryForm
      <<"te", stem \o <<12390>>>>,  \* stem + 'て'
      <<"masu", stem \o <<12414, 12377>>>>,  \* stem + 'ます'
      <<"masen", stem \o <<12414, 12379, 12435>>>>,  \* stem + 'ません'
      <<"mashita", stem \o <<12414, 12375, 12383>>>>,  \* stem + 'ました'
      <<"masen-deshita", stem \o <<12414, 12379, 12435, 12391, 12375, 12383>>>>,  \* stem + 'ませんでした'
      <<"nai", stem \o <<12394, 12356>>>>,  \* stem + 'ない'
      <<"nakatta", stem \o <<12394, 12363, 12387, 12383>>>>,  \* stem + 'なかった'
      <<"ta", stem \o <<12383>>>>,  \* stem + 'た'
      <<"volitional-plain", stem \o <<12424, 12358>>>>,  \* stem + 'よう'
      <<"volitional-polite", stem \o <<12414, 12375, 12423, 12358>>>>,  \* stem + 'ましょう'
      <<"potential-plain", stem \o <<12425, 12428, 12427>>>>,  \* stem + 'られる'
      <<"potential-polite", stem \o <<12425, 12428, 12414, 12377>>>>,  \* stem + 'られます'
      <<"potential-negative", stem \o <<12425, 12428, 12394, 12356>>>>,  \* stem + 'られない'
      <<"passive-plain", stem \o <<12425, 12428, 12427>>>>,  \* stem + 'られる'
      <<"passive-polite", stem \o <<12425, 12428, 12414, 12377>>>>,  \* stem + 'られます'
      <<"causative-plain", stem \o <<12373, 12379, 12427>>>>,  \* stem + 'させる'
      <<"causative-polite", stem \o <<12373, 12379, 12414, 12377>>>>,  \* stem + 'させます'
      <<"causative-passive-plain", stem \o <<12373, 12379, 12425, 12428, 12427>>>>,  \* stem + 'させられる'
      <<"causative-passive-polite", stem \o <<12373, 12379, 12425, 12428, 12414, 12377>>>>,  \* stem + 'させられます'
      <<"imperative-plain", stem \o <<12429>>>>,  \* stem + 'ろ'
      <<"imperative-polite", stem \o <<12390, 12367, 12384, 12373, 12356>>>>,  \* stem + 'てください'
      <<"imperative-negative", verb.dictionaryForm \o <<12394>>>>,  \* verb.dictionaryForm + 'な'
      <<"conditional-ba", stem \o <<12428, 12400>>>>,  \* stem + 'れば'
      <<"conditional-tara", stem \o <<12383, 12425>>>>,  \* stem + 'たら'
      <<"conditional-nara", verb.dictionaryForm \o <<12394, 12425>>>>,  \* verb.dictionaryForm + 'なら'
      <<"tai", stem \o <<12383, 12356>>>>,  \* stem + 'たい'
      <<"takunai", stem \o <<12383, 12367, 12394, 12356>>>>,  \* stem + 'たくない'
      <<"takatta", stem \o <<12383, 12363, 12387, 12383>>>>,  \* stem + 'たかった'
      <<"takunakatta", stem \o <<12383, 12367, 12394, 12363, 12387, 12383>>>>,  \* stem + 'たくなかった'
      <<"progressive-present", stem \o <<12390, 12356, 12427>>>>,  \* stem + 'ている'
      <<"progressive-past", stem \o <<12390, 12356, 12383>>>>,  \* stem + 'ていた'
      <<"honorific-respectful", <<12362>> \o stem \o <<12395, 12394, 12427>>>>,  \* 'お' + stem + 'になる'
      <<"honorific-humble", <<12362>> \o stem \o <<12377, 12427>>>>  \* 'お' + stem + 'する'
        >>)

\* getIchidanColloquialPotential(verb)
getIchidanColloquialPotential(verb) ==
  IF verb.type # "ichidan"
  THEN Throw("", "getIchidanColloquialPotential called with non-Ichidan verb")
  ELSE Return(verb.stem \o <<12428, 12427>>)

\* mutant: the traditional potential is built with the short suffix
getIchidanPotentialShort(verb) ==
  IF verb.type # "ichidan"
  THEN Throw("", "getIchidanTraditionalPotential called with non-Ichidan verb")
  ELSE Return(verb.stem \o <<12428, 12427>>)

\* getIchidanTraditionalPotential(verb)
getIchidanTraditionalPotential(verb) ==
  IF verb.type # "ichidan"
  THEN Throw("", "getIchidanTraditionalPotential called with non-Ichidan verb")
  ELSE Return(verb.stem \o <<12425, 12428, 12427>>)
(***************************************************************************)
(* Conjugation facade (lib/engine/conjugate.ts).                           *)
(***************************************************************************)

createError(code, message) == [code |-> code, message |-> message]

\* !input || input.trim().length === 0
isEmptyOrWhitespace(input_) == input_ = <<>> \/ Len(trim(input_)) = 0

containsOnlyJapanese(input_) == isJapanese(trim(input_))

\* mutant: the text is validated as typed, surrounding whitespace included
validateInputRaw(input_) ==
  IF isEmptyOrWhitespace(input_) THEN
    <<createError("EMPTY_INPUT", "Please enter a Japanese verb")>>
  ELSE IF ~isJapanese(input_) THEN
    <<createError("INVALID_CHARACTERS",
                  "Please enter a valid Japanese verb using hiragana, katakana, or kanji")>>
  ELSE <<>>

\* validateInput(input): a ConjugationError, or null
validateInput(input_) ==
  IF isEmptyOrWhitespace(input_) THEN
    <<createError("EMPTY_INPUT", "Please enter a Japanese verb")>>
  ELSE IF ~containsOnlyJapanese(trim(input_)) THEN
    <<createError("INVALID_CHARACTERS",
                  "Please enter a valid Japanese verb using hiragana, katakana, or kanji")>>
  ELSE <<>>

\* getConjugationFunction(verbInfo)(verbInfo)
conjugationFn(verbInfo) ==
  CASE verbInfo.type = "godan" -> conjugateGodan(verbInfo)
    [] verbInfo.type = "ichidan" -> conjugateIchidan(verbInfo)
    [] verbInfo.type = "irregular" -> conjugateIrregular(verbInfo)
    [] OTHER -> Throw("", "Unknown verb type")

\* the catch block: the error code is parsed from the message prefix
catchError(message) ==
  IF message.code \in {"EMPTY_INPUT", "INVALID_CHARACTERS", "UNKNOWN_VERB"}
  THEN [success |-> FALSE, error |-> createError(message.code, message.text)]
  ELSE [success |-> FALSE, error |-> createError("CONJUGATION_FAILED", message.text)]

\* the tail of conjugate once the generator has run
conjugateGenerated(verbInfo, generated, now_) ==
  IF generated.throws THEN catchError(generated.message)
  ELSE [success |-> TRUE,
        result |-> [verb |-> verbInfo, forms |-> generated.value, timestamp |-> now_]]

\* the tail of conjugate once classifyVerb has run
conjugateClassified(classified, now_) ==
  IF classified.throws THEN catchError(classified.message)
  ELSE conjugateGenerated(classified.value, conjugationFn(classified.value), now_)

\* conjugate(input); now_ is the value Date.now() returns during the call
conjugate(input_, now_) ==
  LET validationError == validateInput(input_)
  IN  IF validationError # <<>> THEN [success |-> FALSE, error |-> validationError[1]]
      ELSE conjugateClassified(classifyVerb(input_), now_)
(***************************************************************************)
(* Serialization (types.ts).  A JSON text is modelled by its syntax tree:  *)
(* an object is the ordered list of its members <<key, value>>, an array   *)
(* the list of its elements; a member whose value is undefined is not      *)
(* written.                                                                *)
(***************************************************************************)

\* own keys of a VerbInfo in creation order (the object literals of classifyVerb)
VERB_KEYS == <<"dictionaryForm", "reading", "romaji", "type", "stem", "ending",
               "irregularType", "compoundPrefix">>

\* own keys of a ConjugationForm in creation order (the object literal of createForm)
FORM_KEYS == <<"id", "name", "nameJapanese", "kanji", "hiragana", "romaji",
               "formality", "category">>

\* obj[key], undefined when absent: an optional value
fieldOf(obj, key) == IF key \in DOMAIN obj THEN <<obj[key]>> ELSE <<>>

\* JSON.stringify of a flat object: its defined members in key order
RECURSIVE stringifyObject(_, _, _)
stringifyObject(obj, keys, k) ==
  IF k > Len(keys) THEN <<>>
  ELSE (IF fieldOf(obj, keys[k]) # <<>> THEN << <<keys[k], obj[keys[k]]>> >> ELSE <<>>)
       \o stringifyObject(obj, keys, k + 1)

\* JSON.parse of a flat object: a later member overrides an earlier one of the same key
parseObject(members) ==
  [key \in {members[k][1] : k \in 1..Len(members)} |->
     LET last == CHOOSE k \in 1..Len(members) :
                   /\ members[k][1] = key
                   /\ \A j \in 1..Len(members) : members[j][1] = key => j <= k
     IN  members[last][2]]

\* mutant: the optional compoundPrefix member is not written
serializeResultNoPrefix(result) ==
  [verb |-> stringifyObject(result.verb, SubSeq(VERB_KEYS, 1, 7), 1),
   forms |-> [k \in 1..Len(result.forms) |-> stringifyObject(result.forms[k], FORM_KEYS, 1)],
   timestamp |-> result.timestamp]

\* serializeResult(result): JSON.stringify({verb, forms, timestamp})
serializeResult(result) ==
  [verb |-> stringifyObject(result.verb, VERB_KEYS, 1),
   forms |-> [k \in 1..Len(result.forms) |-> stringifyObject(result.forms[k], FORM_KEYS, 1)],
   timestamp |-> result.timestamp]

\* deserializeResult(json): JSON.parse, then a copy of the three fields
deserializeResult(json_) ==
  [verb |-> parseObject(json_.verb),
   forms |-> [k \in 1..Len(json_.forms) |-> parseObject(json_.forms[k])],
   timestamp |-> json_.timestamp]

\* areResultsEquivalent(a, b): every field compared with !==
areResultsEquivalent(a, b) ==
  /\ \A k \in 1..Len(VERB_KEYS) : fieldOf(a.verb, VERB_KEYS[k]) = fieldOf(b.verb, VERB_KEYS[k])
  /\ a.timestamp = b.timestamp
  /\ Len(a.forms) = Len(b.forms)
  /\ \A i \in 1..Len(a.forms) :
       \A k \in 1..Len(FORM_KEYS) :
         fieldOf(a.forms[i], FORM_KEYS[k]) = fieldOf(b.forms[i], FORM_KEYS[k])


(***************************************************************************)
(* The conjugator store (store/useConjugatorStore.ts).  Its state is one   *)
(* object; an action is a function from the state before to the state     *)
(* after.  The clock reading and the random draw an action makes are       *)
(* parameters.                                                             *)
(***************************************************************************)
MAX_HISTORY_ENTRIES == 50

\* `${Date.now()}-${Math.random().toString(36).substring(2, 9)}`
generateId(now_, random) == <<now_, random>>

createHistoryEntry(result, id) ==
  [id        |-> id,
   verb      |-> result.verb.dictionaryForm,
   verbType  |-> result.verb.type,
   timestamp |-> result.timestamp]

\* the state the store is created with
initialState ==
  [inputText          |-> <<>>,
   result             |-> <<>>,
   isLoading          |-> FALSE,
   error              |-> <<>>,
   expandedCategories |-> <<"basic", "polite">>,
   history            |-> <<>>]

\* set(partial): the fields of partial replace those of the state
set(state, partial) ==
  [k \in DOMAIN state |-> IF k \in DOMAIN partial THEN partial[k] ELSE state[k]]

setInputText(state, text) == set(state, [inputText |-> text, error |-> <<>>])

\* history.findIndex(entry => entry.verb === verb), 0-based, -1 when absent
findIndex(history, verb) ==
  IF \E k \in 1..Len(history) : history[k].verb = verb
  THEN (CHOOSE k \in 1..Len(history) :
          /\ history[k].verb = verb
          /\ \A j \in 1..(k - 1) : history[j].verb # verb) - 1
  ELSE -1

\* mutant: the existing entry is moved to the front as it is
moveToFrontAsIs(history, existingIndex, timestamp) ==
  <<history[existingIndex + 1]>>
    \o SubSeq(history, 1, existingIndex)
    \o SubSeq(history, existingIndex + 2, Len(history))

\* the existing entry moved to the front with the timestamp of the result
moveToFront(history, existingIndex, timestamp) ==
  <<[history[existingIndex + 1] EXCEPT !.timestamp = timestamp]>>
    \o SubSeq(history, 1, existingIndex)
    \o SubSeq(history, existingIndex + 2, Len(history))

\* mutant: the history is never cut
capHistoryNever(newHistory) == newHistory

\* mutant: the cut removes the entry behind the first one
capHistorySecond(newHistory) ==
  IF Len(newHistory) > MAX_HISTORY_ENTRIES
  THEN <<newHistory[1]>> \o SubSeq(newHistory, 3, MAX_HISTORY_ENTRIES + 1)
  ELSE newHistory

capHistory(newHistory) ==
  IF Len(newHistory) > MAX_HISTORY_ENTRIES
  THEN SubSeq(newHistory, 1, MAX_HISTORY_ENTRIES)
  ELSE newHistory

\* mutant: an existing entry gets the new timestamp where it is
insertInPlace(history, existingIndex, result, id) ==
  IF existingIndex >= 0
  THEN [history EXCEPT ![existingIndex + 1].timestamp = result.timestamp]
  ELSE <<createHistoryEntry(result, id)>> \o history

insert(history, existingIndex, result, id) ==
  IF existingIndex >= 0
  THEN moveToFront(history, existingIndex, result.timestamp)
  ELSE <<createHistoryEntry(result, id)>> \o history

addToHistory(state, result, id) ==
  set(state,
      [history |-> capHistory(insert(state.history,
                                     findIndex(state.history, result.verb.dictionaryForm),
                                     result, id))])

\* mutant: on an error the result on display is kept
settleKeepingResult(state, conjugateResult, id) ==
  IF conjugateResult.success
  THEN addToHistory(set(state, [result    |-> <<conjugateResult.result>>,
                                isLoading |-> FALSE,
                                error     |-> <<>>]),
                    conjugateResult.result, id)
  ELSE set(state, [isLoading |-> FALSE,
                   error     |-> <<conjugateResult.error>>])

\* the second half of the conjugate action: what it does with the value the
\* engine returned
settle(state, conjugateResult, id) ==
  IF conjugateResult.success
  THEN addToHistory(set(state, [result    |-> <<conjugateResult.result>>,
                                isLoading |-> FALSE,
                                error     |-> <<>>]),
                    conjugateResult.result, id)
  ELSE set(state, [result    |-> <<>>,
                   isLoading |-> FALSE,
                   error     |-> <<conjugateResult.error>>])

\* the conjugate action of the store
doConjugate(state, now_, random) ==
  settle(set(state, [isLoading |-> TRUE, error |-> <<>>]),
         conjugate(state.inputText, now_),
         generateId(now_, random))

indexOf(array, item) ==
  IF \E k \in 1..Len(array) : array[k] = item
  THEN (CHOOSE k \in 1..Len(array) :
          array[k] = item /\ \A j \in 1..(k - 1) : array[j] # item) - 1
  ELSE -1

\* array.splice(index, 1)
splice1(array, index) == SubSeq(array, 1, index) \o SubSeq(array, index + 2, Len(array))

toggleAt(expanded, index, category) ==
  IF index >= 0 THEN splice1(expanded, index) ELSE Append(expanded, category)

toggleCategory(state, category) ==
  set(state, [expandedCategories |->
                toggleAt(state.expandedCategories,
                         indexOf(state.expandedCategories, category), category)])

filterOutId(history, id) == SelectSeq(history, LAMBDA entry : entry.id # id)

deleteFromHistory(state, id) == set(state, [history |-> filterOutId(state.history, id)])

clearHistory(state) == set(state, [history |-> <<>>])

\* mutant: the text is put back without conjugating it
restoreTextOnly(state, entry, now_, random) == setInputText(state, entry.verb)

restoreFromHistory(state, entry, now_, random) ==
  doConjugate(setInputText(state, entry.verb), now_, random)

\* params.verb is an optional string; an absent or empty one is falsy
initFromUrlParams(state, params, now_, random) ==
  IF params.verb # <<>> /\ params.verb[1] # <<>>
  THEN doConjugate(setInputText(state, params.verb[1]), now_, random)
  ELSE state

reset(state) ==
  set(state, [inputText |-> <<>>, result |-> <<>>, isLoading |-> FALSE, error |-> <<>>])
(***************************************************************************)
(* The caller.  It holds one verb text, calls the engine with it and       *)
(* reads what the engine returns.                                          *)
(***************************************************************************)
MaxLen == 3     \* length of the longest enumerated text
MaxWs == 3      \* length of the longest enumerated whitespace-only text
MaxClock == 1   \* latest reading of the clock

Words(chars, n) == UNION {[1..k -> chars] : k \in 0..n}

\* る す く 来 い 行 べ 食 っ ア
Alphabet == {12427, 12377, 12367, 26469, 12356, 34892, 12409, 39135, 12387, 12450}

\* 食 べ い
StemChars == {39135, 12409, 12356}

\* space, tab, line feed, carriage return
WsChars == {32, 9, 10, 13}

\* space, ideographic space, a, U+9FB0, half-width katakana, a high surrogate, る 食 す
MixChars == {32, 12288, 97, 40880, 65383, 55362, 12427, 39135, 12377}

\* every entry of the classification tables, and compound verbs of the source
TableVerbs ==
  DOMAIN IRREGULAR_VERBS \cup FALSE_ICHIDAN_VERBS \cup KNOWN_ICHIDAN_VERBS
  \cup {<<21193, 24375, 12377, 12427>>, <<36023, 12356, 29289, 12377, 12427>>, <<25345, 12387, 12390, 12367, 12427>>, <<25345, 12387, 12390, 26469, 12427>>, <<26360, 12367>>, <<36023, 12358>>, <<24453, 12388>>,
        <<27515, 12396>>, <<36938, 12406>>, <<35501, 12416>>, <<27891, 12368>>, <<35441, 12377>>, <<12459, 12483, 12488>>}

\* a stem followed by one of the nine five-grade terminal characters
TerminalVerbs ==
  {s \o t : s \in Words(StemChars, MaxLen - 1), t \in GODAN_ENDING_CHARS}

JapaneseTexts == Words(Alphabet, MaxLen)

WhitespaceTexts == Words(WsChars, MaxWs)

MixedTexts == Words(MixChars, MaxLen)

Inputs == JapaneseTexts \cup TerminalVerbs \cup TableVerbs \cup WhitespaceTexts \cup MixedTexts

\* texts of the sessions with several calls
SampleTexts ==
  {<<26360, 12367>>, <<39135, 12409, 12427>>, <<12377, 12427>>, <<21193, 24375, 12377, 12427>>, <<26469, 12427>>, <<25345, 12387, 12390, 26469, 12427>>, <<12367, 12427>>, <<12354, 12427>>, <<34892, 12367>>, <<12356, 12367>>,
   <<12367, 12384, 12373, 12427>>, <<12427>>, <<24112, 12427>>, <<39135>>, <<97>>, <<32, 35501, 12416>>, <<>>}

OtherTexts == {<<35501, 12416>>, <<35211, 12427>>, <<36939, 21205, 12377, 12427>>, <<120>>, <<26360, 12367>>}

\* whitespace put before and after a text
Pads == {<<>>, <<32>>, <<9, 10>>, <<12288, 13>>}

\* っ ッ ー き ゃ ア ゐ 食 a
RomajiChars == {12387, 12483, 12540, 12365, 12419, 12450, 12432, 39135, 97}

\* texts given to the romaji converter
RomajiTexts == Words(RomajiChars, MaxLen)

InitWith(texts) ==
  /\ input \in texts
  /\ pc = "idle"
  /\ now = 0
  /\ arg = <<>>
  /\ ret = <<>>
  /\ prev = <<>>
  /\ mixed = FALSE
  /\ teta = <<>>
  /\ json = <<>>
  /\ back = <<>>
  /\ pot = <<>>
  /\ latin = <<>>
  /\ store = initialState
  /\ op = [name |-> "create", text |-> <<>>, entry |-> <<>>, position |-> 0]
  /\ origin = <<>>
  /\ kana = [typed |-> <<>>, lowered |-> <<>>, back |-> <<>>]

Init == InitWith(Inputs)

\* time passes between two steps of the caller
Tick ==
  /\ pc = "idle"
  /\ now < MaxClock
  /\ now' = now + 1
  /\ UNCHANGED <<input, pc, arg, ret, prev, mixed, teta, json, back, pot, latin, store, op, origin, kana>>

\* mutant: the list the forms are pushed to outlives the call, so that a call
\* returns the forms of the call before it followed by its own
CallShared(text) ==
  /\ pc = "idle"
  /\ arg' = text
  /\ \E fresh \in {conjugate(text, now)} :
       ret' = IF fresh.success /\ ret # <<>> /\ ret[1].success
              THEN <<[fresh EXCEPT !.result.forms = ret[1].result.forms \o @]>>
              ELSE <<fresh>>
  /\ prev' = IF prev = <<>> /\ text = input THEN ret' ELSE prev
  /\ mixed' = (mixed \/ text # input)
  /\ pc' = "returned"
  /\ UNCHANGED <<input, now, teta, json, back, pot, latin, store, op, origin, kana>>

\* conjugate(text): ret is what the call returns, prev what the first call on the
\* caller's own text returned, mixed whether a call on another text has been made
Call(text) ==
  /\ pc = "idle"
  /\ arg' = text
  /\ ret' = <<conjugate(text, now)>>
  /\ prev' = IF prev = <<>> /\ text = input THEN ret' ELSE prev
  /\ mixed' = (mixed \/ text # input)
  /\ pc' = "returned"
  /\ UNCHANGED <<input, now, teta, json, back, pot, latin, store, op, origin, kana>>

Conjugate == Call(input)

ConjugateOther == \E w \in OtherTexts : w # input /\ Call(w)

ConjugatePadded == \E p \in Pads, q \in Pads : p \o q # <<>> /\ Call(p \o input \o q)

\* the caller goes on to its next call
Resume ==
  /\ pc = "returned"
  /\ pc' = "idle"
  /\ UNCHANGED <<input, now, arg, ret, prev, mixed, teta, json, back, pot, latin, store, op, origin, kana>>

\* getGodanTeForm(verb), getGodanTaForm(verb) on the classified verb
GetGodanTeTa ==
  /\ pc = "returned"
  /\ ret[1].success
  /\ teta' = <<[te |-> getGodanTeForm(ret[1].result.verb), ta |-> getGodanTaForm(ret[1].result.verb)]>>
  /\ pc' = "helped"
  /\ UNCHANGED <<input, now, arg, ret, prev, mixed, json, back, pot, latin, store, op, origin, kana>>

\* getIchidanColloquialPotential(verb), getIchidanTraditionalPotential(verb) on
\* the classified verb
GetIchidanPotential ==
  /\ pc = "returned"
  /\ ret[1].success
  /\ pot' = <<[colloquial |-> getIchidanColloquialPotential(ret[1].result.verb),
               traditional |-> getIchidanTraditionalPotential(ret[1].result.verb)]>>
  /\ pc' = "potential"
  /\ UNCHANGED <<input, now, arg, ret, prev, mixed, teta, json, back, latin, store, op, origin, kana>>

\* serializeResult of the returned result, and of the restored one
Serialize ==
  /\ pc \in {"returned", "deserialized"}
  /\ ret[1].success
  /\ json' = <<serializeResult(IF pc = "returned" THEN ret[1].result ELSE back[1])>>
  /\ pc' = IF pc = "returned" THEN "serialized" ELSE "reserialized"
  /\ UNCHANGED <<input, now, arg, ret, prev, mixed, teta, back, pot, latin, store, op, origin, kana>>

\* deserializeResult of the serialized text
Deserialize ==
  /\ pc \in {"serialized", "reserialized"}
  /\ back' = <<deserializeResult(json[1])>>
  /\ pc' = IF pc = "serialized" THEN "deserialized" ELSE "redeserialized"
  /\ UNCHANGED <<input, now, arg, ret, prev, mixed, teta, json, pot, latin, store, op, origin, kana>>

Next == Conjugate \/ GetGodanTeTa \/ GetIchidanPotential

Spec == Init /\ [][Next]_vars

\* several calls of the engine in one session
InitCalls == InitWith(SampleTexts)

NextCalls == Tick \/ Conjugate \/ ConjugateOther \/ ConjugatePadded \/ Resume

SpecCalls == InitCalls /\ [][NextCalls]_vars

\* a result sent through the interchange format and back, twice
InitWire == InitWith(TableVerbs \cup TerminalVerbs)

NextWire == Tick \/ Conjugate \/ Serialize \/ Deserialize

SpecWire == InitWire /\ [][NextWire]_vars

\* toRomaji(input)
ToRomaji ==
  /\ pc = "idle"
  /\ latin' = <<toRomaji(input)>>
  /\ pc' = "romanized"
  /\ UNCHANGED <<input, now, arg, ret, prev, mixed, teta, json, back, pot, store, op, origin, kana>>

\* one call of the romaji converter per text
InitRomaji == InitWith(RomajiTexts)

NextRomaji == ToRomaji

SpecRomaji == InitRomaji /\ [][NextRomaji]_vars

\* k a n x K A
LatinChars == {107, 97, 110, 120, 75, 65}

\* あ か ん な じ
KanaChars == {12354, 12363, 12435, 12394, 12376}

\* texts given to romajiToHiragana and to hiraganaToRomaji
LatinTexts == Words(LatinChars, MaxLen)
KanaTexts == Words(KanaChars, MaxLen)

\* romajiToHiragana(input)
RomajiToHiragana ==
  /\ kana.typed = <<>>
  /\ kana' = [kana EXCEPT !.typed = <<romajiToHiragana(input)>>]
  /\ UNCHANGED <<input, pc, now, arg, ret, prev, mixed, teta, json, back, pot, latin, store, op, origin>>

\* romajiToHiragana(input.toLowerCase())
RomajiToHiraganaLowered ==
  /\ kana.lowered = <<>>
  /\ kana' = [kana EXCEPT !.lowered = <<romajiToHiragana(toLowerCase(input))>>]
  /\ UNCHANGED <<input, pc, now, arg, ret, prev, mixed, teta, json, back, pot, latin, store, op, origin>>

\* hiraganaToRomaji(input)
HiraganaToRomaji ==
  /\ latin = <<>>
  /\ latin' = <<hiraganaToRomaji(input)>>
  /\ UNCHANGED <<input, pc, now, arg, ret, prev, mixed, teta, json, back, pot, store, op, origin, kana>>

\* romajiToHiragana(hiraganaToRomaji(input))
RomajiBack ==
  /\ latin # <<>>
  /\ kana.back = <<>>
  /\ kana' = [kana EXCEPT !.back = <<romajiToHiragana(latin[1])>>]
  /\ UNCHANGED <<input, pc, now, arg, ret, prev, mixed, teta, json, back, pot, latin, store, op, origin>>

\* the two converters applied to Latin and to hiragana texts
InitKana == InitWith(LatinTexts \cup KanaTexts)

NextKana == RomajiToHiragana \/ RomajiToHiraganaLowered \/ HiraganaToRomaji \/ RomajiBack

SpecKana == InitKana /\ [][NextKana]_vars

(***************************************************************************)
(* The user of the store.  Every store action is one step; op names the    *)
(* latest one, with the text or the history entry passed to it and the     *)
(* position the entry had.  An action is given the clock readings and the  *)
(* random draws it may see, and the arguments the user may pass.           *)
(***************************************************************************)
MaxSlack == 1   \* how far below its limit the history is when the user starts browsing it

\* texts typed into the input field: 書く, 食べる, 書く with spaces around it,
\* nothing, spaces, Latin letters
StoreTexts == {<<26360, 12367>>, <<39135, 12409, 12427>>, <<32, 26360, 12367, 32>>, <<>>, <<32, 32>>, <<107, 97, 107, 117>>}

\* values of the verb parameter of the page address: 食べる, nothing
UrlTexts == {<<39135, 12409, 12427>>, <<>>}

\* values of Math.random() as they appear in an id
Draws == {0, 1}

\* 書 読 飲 待 買 話
HistoryStems == <<26360, 35501, 39154, 24453, 36023, 35441>>

\* う く ぐ す つ ぬ ぶ む る
HistoryEndings == <<12358, 12367, 12368, 12377, 12388, 12396, 12406, 12416, 12427>>

\* the k-th verb of the user who fills the history: 書う 書く ... 話る
verbAt(k) ==
  <<HistoryStems[((k - 1) \div Len(HistoryEndings)) + 1],
    HistoryEndings[((k - 1) % Len(HistoryEndings)) + 1]>>

\* two more verbs than the history holds
HistoryVerbs == [k \in 1..(MAX_HISTORY_ENTRIES + 2) |-> verbAt(k)]

\* the verbs of HistoryVerbs no history entry has been created from yet, by position
FreshVerbs == {k \in DOMAIN HistoryVerbs : HistoryVerbs[k] \notin DOMAIN origin}

\* the first of them
NextFresh == {HistoryVerbs[k] : k \in {j \in FreshVerbs : \A i \in FreshVerbs : j <= i}}

Same == {now}

Later == IF now < MaxClock THEN {now + 1} ELSE {}

NearlyFull == Len(store.history) >= MAX_HISTORY_ENTRIES - MaxSlack

\* the result a history entry is created from is remembered under its verb
remember(history, result) ==
  IF findIndex(history, result.verb.dictionaryForm) >= 0
  THEN origin
  ELSE [v \in DOMAIN origin \cup {result.verb.dictionaryForm} |->
          IF v = result.verb.dictionaryForm
          THEN [verb |-> result.verb, forms |-> result.forms]
          ELSE origin[v]]

\* a step that leaves the history as it is, or only removes entries
Apply(next, name, text, entry, position, t) ==
  /\ store' = next
  /\ op' = [name |-> name, text |-> text, entry |-> entry, position |-> position]
  /\ now' = t
  /\ UNCHANGED <<input, pc, arg, ret, prev, mixed, teta, json, back, pot, latin, origin, kana>>

\* a step that has run the conjugate action of the store
Conjugated(next, name, text, entry, position, t) ==
  /\ store' = next
  /\ op' = [name |-> name, text |-> text, entry |-> entry, position |-> position]
  /\ now' = t
  /\ origin' = IF next.result # <<>> /\ next.error = <<>>
               THEN remember(store.history, next.result[1])
               ELSE origin
  /\ UNCHANGED <<input, pc, arg, ret, prev, mixed, teta, json, back, pot, latin, kana>>

SetInputText(texts, times) ==
  \E text \in texts, t \in times :
    Apply(setInputText(store, text), "setInputText", text, <<>>, 0, t)

StoreConjugate(times, draws) ==
  \E t \in times, random \in draws :
    Conjugated(doConjugate(store, t, random), "conjugate", store.inputText, <<>>, 0, t)

\* restoreFromHistory(entry) for the entries at these positions
RestoreFromHistory(positions, times, draws) ==
  \E k \in positions \cap DOMAIN store.history, t \in times, random \in draws :
    Conjugated(restoreFromHistory(store, store.history[k], t, random),
               "restoreFromHistory", store.history[k].verb, <<store.history[k]>>, k, t)

InitFromUrlParams(texts, times, draws) ==
  \E text \in texts, t \in times, random \in draws :
    IF text # <<>>
    THEN Conjugated(initFromUrlParams(store, [verb |-> <<text>>], t, random),
                    "initFromUrlParams", text, <<>>, 0, t)
    ELSE Apply(initFromUrlParams(store, [verb |-> <<text>>], t, random),
               "initFromUrlParams", text, <<>>, 0, t)

\* addToHistory(result) with the result on display
AddToHistory(times, draws) ==
  /\ store.result # <<>>
  /\ \E t \in times, random \in draws :
       /\ store' = addToHistory(store, store.result[1], generateId(t, random))
       /\ op' = [name |-> "addToHistory", text |-> store.result[1].verb.dictionaryForm,
                 entry |-> <<>>, position |-> 0]
       /\ now' = t
       /\ origin' = remember(store.history, store.result[1])
       /\ UNCHANGED <<input, pc, arg, ret, prev, mixed, teta, json, back, pot, latin, kana>>

\* deleteFromHistory(id) with the id of the entries at these positions
DeleteFromHistory(positions, times) ==
  \E k \in positions \cap DOMAIN store.history, t \in times :
    Apply(deleteFromHistory(store, store.history[k].id), "deleteFromHistory",
          store.history[k].verb, <<store.history[k]>>, k, t)

ClearHistory(times) ==
  \E t \in times : Apply(clearHistory(store), "clearHistory", <<>>, <<>>, 0, t)

Reset(times) ==
  \E t \in times : Apply(reset(store), "reset", <<>>, <<>>, 0, t)

ToggleCategory(categories) ==
  \E category \in categories :
    Apply(toggleCategory(store, category), "toggleCategory", <<>>, <<>>, 0, now)

\* a user who types, submits, browses the history and folds categories in any order
InitStore == InitWith({<<>>})

NextStore ==
  \/ SetInputText(StoreTexts, Same)
  \/ StoreConjugate(Same, Draws)
  \/ RestoreFromHistory(DOMAIN store.history, Same, Draws)
  \/ InitFromUrlParams(UrlTexts, Same, Draws)
  \/ AddToHistory(Same, Draws)
  \/ DeleteFromHistory(DOMAIN store.history, Same)
  \/ ClearHistory(Same)
  \/ Reset(Same)
  \/ ToggleCategory({"past"})

SpecStore == InitStore /\ [][NextStore]_vars

\* a user who conjugates one new verb after the other and, once the history is
\* nearly full, now and then does something else with it
NextHistory ==
  \/ SetInputText(NextFresh, Same)
  \/ StoreConjugate(Same, {0})
  \/ NearlyFull /\ RestoreFromHistory({1, Len(store.history)}, Later, {0})
  \/ NearlyFull /\ InitFromUrlParams({store.history[Len(store.history)].verb}, Later, {0})
  \/ NearlyFull /\ AddToHistory(Later, {0})
  \/ NearlyFull /\ DeleteFromHistory({1, Len(store.history)}, Later)
  \/ NearlyFull /\ ClearHistory(Later)
  \/ NearlyFull /\ Reset(Later)

SpecHistory == InitStore /\ [][NextHistory]_vars
(***************************************************************************)
(* Properties.                                                             *)
(***************************************************************************)

\* the latest call has returned a result
Succeeded == ret # <<>> /\ ret[1].success

\* the latest call has returned an error with this code
FailedWith(code) == ret # <<>> /\ ~ret[1].success /\ ret[1].error.code = code

\* the values of the type ConjugationCategory
Categories ==
  {"basic", "polite", "negative", "past", "volitional", "potential", "passive",
   "causative", "causative-passive", "imperative", "conditional", "tai-form",
   "progressive", "honorific"}

HasPrefix(s, p) == Len(s) >= Len(p) /\ SubSeq(s, 1, Len(p)) = p

\* the form with this id
formOf(forms, id) == forms[CHOOSE k \in 1..Len(forms) : forms[k].id = id]

\* C1: every successful conjugate returns 34 forms (so at least 30), and each of
\* the 14 categories is the category of at least one of them.
C1_Completeness ==
  Succeeded =>
    LET forms == ret[1].result.forms
    IN  /\ Len(forms) = 34
        /\ Len(forms) >= 30
        /\ Cardinality(Categories) = 14
        /\ \A c \in Categories : \E k \in 1..Len(forms) : forms[k].category = c

\* a compound verb has been conjugated
C1_Witness ==
  /\ Succeeded
  /\ pc = "returned"
  /\ ret[1].result.verb.type = "irregular"
  /\ "compoundPrefix" \in DOMAIN ret[1].result.verb
  /\ Len(ret[1].result.forms) = 34

\* same success flag, same error code, same verb info, same forms in the same order
SameOutcome(a, b) ==
  /\ a.success = b.success
  /\ a.success => a.result.verb = b.result.verb /\ a.result.forms = b.result.forms
  /\ ~a.success => a.error.code = b.error.code

C3_StemEnding ==
  Succeeded =>
    LET v == ret[1].result.verb
    IN  IF "compoundPrefix" \in DOMAIN v
        THEN /\ v.compoundPrefix \o v.ending = v.dictionaryForm
             /\ v.ending \in {<<12377, 12427>>, <<12367, 12427>>, <<26469, 12427>>}
        ELSE v.stem \o v.ending = v.dictionaryForm

\* a compound of 来る has been classified
C3_Witness ==
  /\ Succeeded
  /\ "compoundPrefix" \in DOMAIN ret[1].result.verb
  /\ ret[1].result.verb.ending = <<26469, 12427>>
  /\ ret[1].result.verb.compoundPrefix # <<>>

\* the connective suffix fixed by the terminal character
TeSuffix(c) ==
  CASE c \in {<<12358>>, <<12388>>, <<12427>>} -> <<12387, 12390>>
    [] c \in {<<12416>>, <<12406>>, <<12396>>} -> <<12435, 12391>>
    [] c = <<12367>> -> <<12356, 12390>>
    [] c = <<12368>> -> <<12356, 12391>>
    [] c = <<12377>> -> <<12375, 12390>>

\* the simple-past suffix fixed by the terminal character
TaSuffix(c) ==
  CASE c \in {<<12358>>, <<12388>>, <<12427>>} -> <<12387, 12383>>
    [] c \in {<<12416>>, <<12406>>, <<12396>>} -> <<12435, 12384>>
    [] c = <<12367>> -> <<12356, 12383>>
    [] c = <<12368>> -> <<12356, 12384>>
    [] c = <<12377>> -> <<12375, 12383>>

\* C4: the te and ta forms of a five-grade verb are its stem followed by the
\* suffix of its terminal character, in the emitted forms and as getGodanTeForm
\* and getGodanTaForm return them; for 行く and いく the two helpers return stem +
\* って and stem + った, and the emitted te and ta forms read so.
C4_TeTaSoundChange ==
  Succeeded =>
    LET v == ret[1].result.verb
        forms == ret[1].result.forms
    IN  /\ v.type = "godan" =>
             /\ formOf(forms, "te").hiragana = v.stem \o TeSuffix(v.ending)
             /\ formOf(forms, "te").kanji = v.stem \o TeSuffix(v.ending)
             /\ formOf(forms, "ta").hiragana = v.stem \o TaSuffix(v.ending)
             /\ formOf(forms, "ta").kanji = v.stem \o TaSuffix(v.ending)
             /\ pc = "helped" =>
                  /\ teta[1].te = [throws |-> FALSE, value |-> v.stem \o TeSuffix(v.ending)]
                  /\ teta[1].ta = [throws |-> FALSE, value |-> v.stem \o TaSuffix(v.ending)]
        /\ v.dictionaryForm \in {<<34892, 12367>>, <<12356, 12367>>} =>
             /\ v.stem \o <<12387, 12390>> \in {formOf(forms, "te").hiragana, formOf(forms, "te").kanji}
             /\ v.stem \o <<12387, 12383>> \in {formOf(forms, "ta").hiragana, formOf(forms, "ta").kanji}
             /\ pc = "helped" =>
                  /\ teta[1].te = [throws |-> FALSE, value |-> v.stem \o <<12387, 12390>>]
                  /\ teta[1].ta = [throws |-> FALSE, value |-> v.stem \o <<12387, 12383>>]

\* the helpers have run on a five-grade verb that ends in く
C4_Witness ==
  /\ pc = "helped"
  /\ ret[1].result.verb.type = "godan"
  /\ ret[1].result.verb.ending = <<12367>>
  /\ teta # <<>>

\* C5: every form of a compound of する or くる starts, in kanji and in hiragana,
\* with the compound prefix; the two honorific forms start with お followed by it.
C5_PrefixPreserved ==
  Succeeded =>
    LET v == ret[1].result.verb
        forms == ret[1].result.forms
    IN  ("compoundPrefix" \in DOMAIN v /\ v.compoundPrefix # <<>>) =>
          \A k \in 1..Len(forms) :
            IF forms[k].id \in {"honorific-respectful", "honorific-humble"}
            THEN /\ HasPrefix(forms[k].kanji, <<12362>> \o v.compoundPrefix)
                 /\ HasPrefix(forms[k].hiragana, <<12362>> \o v.compoundPrefix)
            ELSE /\ HasPrefix(forms[k].kanji, v.compoundPrefix)
                 /\ HasPrefix(forms[k].hiragana, v.compoundPrefix)

\* the compound 持って来る has been conjugated
C5_Witness ==
  /\ Succeeded
  /\ input = <<25345, 12387, 12390, 26469, 12427>>
  /\ "compoundPrefix" \in DOMAIN ret[1].result.verb
  /\ ret[1].result.verb.compoundPrefix = <<25345, 12387, 12390>>

\* C6: conjugate of the empty string, or of a string of spaces, tabs, line feeds
\* and carriage returns, fails with EMPTY_INPUT and returns no result.
C6_WhitespaceRejected ==
  (pc = "returned" /\ arg = input /\ \A k \in 1..Len(input) : input[k] \in {32, 9, 10, 13}) =>
    /\ FailedWith("EMPTY_INPUT")
    /\ "result" \notin DOMAIN ret[1]

\* tab, line feed, carriage return has been rejected
C6_Witness ==
  /\ pc = "returned"
  /\ input = <<9, 10, 13>>
  /\ FailedWith("EMPTY_INPUT")

\* the blocks Hiragana, Katakana, CJK Unified Ideographs and its Extension A
InBlocks(c) ==
  \/ c \in 12352..12447
  \/ c \in 12448..12543
  \/ c \in 19968..40959
  \/ c \in 13312..19903

IsPadded(text) ==
  \E p \in Pads, q \in Pads : p \o q # <<>> /\ text = p \o input \o q

\* C8: where conjugate succeeds on a verb text that neither starts nor ends with
\* whitespace, it succeeds on the text padded with whitespace, with that text as
\* dictionary form and with the same verb info and forms.
C8_PaddingTrimmed ==
  (/\ pc = "returned"
   /\ IsPadded(arg)
   /\ prev # <<>>
   /\ prev[1].success
   /\ ~isWhiteSpace(input[1])
   /\ ~isWhiteSpace(input[Len(input)])) =>
    /\ Succeeded
    /\ ret[1].result.verb.dictionaryForm = input
    /\ ret[1].result.verb = prev[1].result.verb
    /\ ret[1].result.forms = prev[1].result.forms

\* a verb padded on both sides has been conjugated after the verb itself
C8_Witness ==
  /\ pc = "returned"
  /\ arg = <<12288, 13>> \o input \o <<9, 10>>
  /\ prev # <<>>
  /\ prev[1].success
  /\ Succeeded

\* C9: every form of a successful conjugation has a non-empty id, kanji text,
\* hiragana text and romaji text.
C9_FieldsNonEmpty ==
  Succeeded =>
    \A k \in 1..Len(ret[1].result.forms) :
      LET f == ret[1].result.forms[k]
      IN  /\ f.id # ""
          /\ f.kanji # <<>>
          /\ f.hiragana # <<>>
          /\ f.romaji # <<>>

\* a verb of one character, whose stem is empty, has been conjugated
C9_Witness ==
  /\ Succeeded
  /\ Len(ret[1].result.verb.dictionaryForm) = 1
  /\ ret[1].result.verb.stem = <<>>
  /\ Len(ret[1].result.forms) > 0

C11_DualPotential ==
  (pc = "potential" /\ ret[1].result.verb.type = "ichidan") =>
    LET v == ret[1].result.verb
        traditional == pot[1].traditional
        colloquial == pot[1].colloquial
        plain == formOf(ret[1].result.forms, "potential-plain")
    IN  /\ ~traditional.throws
        /\ ~colloquial.throws
        /\ traditional.value = v.stem \o <<12425, 12428, 12427>>
        /\ colloquial.value = v.stem \o <<12428, 12427>>
        /\ HasPrefix(traditional.value, v.stem)
        /\ HasPrefix(colloquial.value, v.stem)
        /\ Len(traditional.value) = Len(colloquial.value) + 1
        /\ plain.hiragana = traditional.value
        /\ plain.kanji = traditional.value

\* the potential helpers have run on 食べる
C11_Witness ==
  /\ pc = "potential"
  /\ input = <<39135, 12409, 12427>>
  /\ ret[1].result.verb.type = "ichidan"
  /\ pot # <<>>

\* C12: the plain negative of ある is ない and its plain past negative なかった,
\* not あらない and あらなかった.
C12_AruNegative ==
  (Succeeded /\ ret[1].result.verb.dictionaryForm = <<12354, 12427>>) =>
    LET nai == formOf(ret[1].result.forms, "nai")
        nakatta == formOf(ret[1].result.forms, "nakatta")
    IN  /\ nai.hiragana = <<12394, 12356>>
        /\ nai.kanji = <<12394, 12356>>
        /\ nakatta.hiragana = <<12394, 12363, 12387, 12383>>
        /\ nakatta.kanji = <<12394, 12363, 12387, 12383>>
        /\ nai.hiragana # <<12354, 12425, 12394, 12356>>
        /\ nakatta.hiragana # <<12354, 12425, 12394, 12363, 12387, 12383>>

\* ある has been conjugated as the exist-irregular verb
C12_Witness ==
  /\ Succeeded
  /\ input = <<12354, 12427>>
  /\ ret[1].result.verb.type = "irregular"
  /\ ret[1].result.verb.irregularType = "aru"

\* a hiragana letter ぁ..ゖ or a katakana letter ァ..ヺ
IsKana(c) == c \in 12353..12438 \/ c \in 12449..12538

\* the characters of s other than kana letters and the long vowel mark ー, in order
RECURSIVE NonKana(_)
NonKana(s) ==
  IF s = <<>> THEN <<>>
  ELSE (IF IsKana(Head(s)) \/ Head(s) = 12540 THEN <<>> ELSE <<Head(s)>>)
       \o NonKana(Tail(s))

\* a is b with some characters left out
RECURSIVE IsSubsequence(_, _)
IsSubsequence(a, b) ==
  IF a = <<>> THEN TRUE
  ELSE IF b = <<>> THEN FALSE
  ELSE IF Head(a) = Head(b) THEN IsSubsequence(Tail(a), Tail(b))
  ELSE IsSubsequence(a, Tail(b))

\* C13: the text toRomaji returns holds no hiragana or katakana letter, holds the
\* other characters of the input unchanged and in their order, and is empty for
\* the empty text.
C13_ToRomaji ==
  (pc = "romanized") =>
    /\ \A k \in 1..Len(latin[1]) : ~IsKana(latin[1][k])
    /\ IsSubsequence(NonKana(input), latin[1])
    /\ input = <<>> => latin[1] = <<>>

\* C13 without its first part: the characters that are not kana pass through
\* unchanged and in order, and the empty text gives the empty text
C13_PassThrough ==
  (pc = "romanized") =>
    /\ IsSubsequence(NonKana(input), latin[1])
    /\ input = <<>> => latin[1] = <<>>

\* C14: starting from an empty history, whatever store operations are run, the
\* history holds at most 50 entries.
C14_HistoryBounded ==
  /\ MAX_HISTORY_ENTRIES = 50
  /\ Len(store.history) <= 50

\* the history is full, and a verb that was not in it has just been conjugated
C14_Witness ==
  /\ op.name = "conjugate"
  /\ Len(store.history) = 50
  /\ Cardinality(DOMAIN origin) = 51
  /\ store.history[1].verb = op.text
  /\ \A k \in 2..50 : store.history[k].verb # op.text

\* the latest store action has run conjugate on a text
RanConjugate ==
  \/ op.name \in {"conjugate", "restoreFromHistory"}
  \/ op.name = "initFromUrlParams" /\ op.text # <<>>

\* C15: right after every successful conjugate of the store (called directly,
\* by restoreFromHistory or by initFromUrlParams) the first history entry is the
\* entry of the verb just conjugated, whether the verb was new or already in
\* the history.
C15_MostRecentFirst ==
  (RanConjugate /\ store.error = <<>>) =>
    /\ store.result # <<>>
    /\ store.history # <<>>
    /\ store.history[1].verb = store.result[1].verb.dictionaryForm
    /\ store.history[1].verb = trim(op.text)
    /\ store.history[1].verbType = store.result[1].verb.type
    /\ store.history[1].timestamp = store.result[1].timestamp

\* the second entry of the history has been restored and is now the first
C15_Witness ==
  /\ op.name = "restoreFromHistory"
  /\ op.position = 2
  /\ store.error = <<>>
  /\ Len(store.history) = 2
  /\ store.history[1].id = op.entry[1].id
  /\ store.history[1].verb = op.entry[1].verb

\* C16: restoreFromHistory(entry), for an entry of the history, leaves inputText
\* equal to entry.verb, error null, and a result with the verb info and the
\* forms of the result the entry was created from.
C16_RestoreSameResult ==
  op.name = "restoreFromHistory" =>
    /\ store.inputText = op.entry[1].verb
    /\ store.error = <<>>
    /\ store.result # <<>>
    /\ op.entry[1].verb \in DOMAIN origin
    /\ store.result[1].verb = origin[op.entry[1].verb].verb
    /\ store.result[1].forms = origin[op.entry[1].verb].forms

\* an entry has been restored while the result of another verb was on display
C16_Witness ==
  /\ op.name = "restoreFromHistory"
  /\ op.position = 2
  /\ Len(store.history) = 2
  /\ store.history[1].id = op.entry[1].id
  /\ store.result # <<>>
  /\ store.result[1].verb.dictionaryForm = op.entry[1].verb
  /\ Len(store.result[1].forms) = 34

\* the step is the conjugate action of the store run on an empty or
\* whitespace-only inputText
ConjugatesBlank == op'.name = "conjugate" /\ isEmptyOrWhitespace(store.inputText)

\* C17: the conjugate action of the store run on an empty or whitespace-only
\* inputText shows the error EMPTY_INPUT and leaves the result on display, the
\* history and the expanded categories as they were.
C17_BlankKeepsState ==
  [][ConjugatesBlank =>
        /\ store'.error # <<>>
        /\ store'.error[1].code = "EMPTY_INPUT"
        /\ store'.result = store.result
        /\ store'.history = store.history
        /\ store'.expandedCategories = store.expandedCategories]_vars

\* what the code keeps of C17: the error is shown, no result is on display, and
\* the history, the expanded categories and the input text are as they were
C17_BlankClearsResult ==
  [][ConjugatesBlank =>
        /\ store'.error # <<>>
        /\ store'.error[1].code = "EMPTY_INPUT"
        /\ store'.result = <<>>
        /\ ~store'.isLoading
        /\ store'.inputText = store.inputText
        /\ store'.history = store.history
        /\ store'.expandedCategories = store.expandedCategories]_vars

\* the latest call was made on a text that is trimmed, not empty and in the
\* scripts the validator accepts
TrimmedValid == ret # <<>> /\ arg # <<>> /\ arg = trim(arg) /\ isJapanese(arg)

\* the text is longer than two characters and ends with する, くる or 来る
EndsAsCompound(text) ==
  Len(text) > 2 /\ \E suffix \in {<<12377, 12427>>, <<12367, 12427>>, <<26469, 12427>>} : endsWith(text, suffix)

\* C18: for a trimmed script-valid input, compoundPrefix is present exactly when
\* the input is longer than two characters and ends with する, くる or 来る; the
\* verb is then irregular, of subtype suru (する) or kuru (くる, 来る), with
\* compoundPrefix the input without the suffix, whatever the irregular table and
\* the one-grade and five-grade lists hold; する, くる and 来る alone have no
\* compoundPrefix.
C18_CompoundFirst ==
  TrimmedValid =>
    IF EndsAsCompound(arg)
    THEN /\ Succeeded
         /\ ret[1].result.verb.type = "irregular"
         /\ "compoundPrefix" \in DOMAIN ret[1].result.verb
         /\ ret[1].result.verb.compoundPrefix = SubSeq(arg, 1, Len(arg) - 2)
         /\ ret[1].result.verb.irregularType =
              (IF endsWith(arg, <<12377, 12427>>) THEN "suru" ELSE "kuru")
    ELSE /\ Succeeded => "compoundPrefix" \notin DOMAIN ret[1].result.verb
         /\ arg \in {<<12377, 12427>>, <<12367, 12427>>, <<26469, 12427>>} => Succeeded

\* a three-character text ending with くる has been conjugated
C18_Witness ==
  /\ Succeeded
  /\ Len(arg) = 3
  /\ endsWith(arg, <<12367, 12427>>)
  /\ ret[1].result.verb.compoundPrefix = <<arg[1]>>
  /\ ret[1].result.verb.irregularType = "kuru"

\* the latest call was made on a verb of this list, as it is written in the list
CalledOn(list) == ret # <<>> /\ arg \in list

\* the latest call was made on a trimmed script-valid text that ends with a
\* kanji followed by る and is on neither list
KanjiRuOffLists ==
  /\ TrimmedValid
  /\ arg \notin FALSE_ICHIDAN_VERBS \cup KNOWN_ICHIDAN_VERBS
  /\ Len(arg) >= 2
  /\ arg[Len(arg)] = 12427
  /\ isKanji(arg[Len(arg) - 1])

\* the classification the lists give their own verbs: no list verb is a compound
\* or an entry of the irregular table
ListVerbsClassified ==
  /\ CalledOn(FALSE_ICHIDAN_VERBS) => Succeeded /\ ret[1].result.verb.type = "godan"
  /\ CalledOn(KNOWN_ICHIDAN_VERBS) => Succeeded /\ ret[1].result.verb.type = "ichidan"
  /\ CalledOn(FALSE_ICHIDAN_VERBS \cup KNOWN_ICHIDAN_VERBS) =>
       /\ ~EndsAsCompound(arg)
       /\ arg \notin DOMAIN IRREGULAR_VERBS
       /\ "irregularType" \notin DOMAIN ret[1].result.verb
       /\ "compoundPrefix" \notin DOMAIN ret[1].result.verb

\* C19 as stated: a verb of the five-grade denylist is classified five-grade, a
\* verb of the one-grade allowlist one-grade, every other verb that ends with
\* kanji + る five-grade, and no verb of either list is classified by the
\* compound or irregular rules.
C19_ListsDecideAll ==
  /\ ListVerbsClassified
  /\ KanjiRuOffLists => Succeeded /\ ret[1].result.verb.type = "godan"

\* C19, amended: as above, where the other verbs that end with kanji + る are
\* those that are neither 来る nor a compound of 来る; these two are classified
\* irregular (kuru) by the rules that come first.
C19_ListsDecide ==
  /\ ListVerbsClassified
  /\ KanjiRuOffLists =>
       /\ Succeeded
       /\ IF endsWith(arg, <<26469, 12427>>)
          THEN /\ ret[1].result.verb.type = "irregular"
               /\ ret[1].result.verb.irregularType = "kuru"
          ELSE ret[1].result.verb.type = "godan"

\* a verb of the denylist that ends with a kana of the i or e row + る has been
\* classified five-grade
C19_Witness ==
  /\ CalledOn(FALSE_ICHIDAN_VERBS)
  /\ isHiragana(arg[Len(arg) - 1])
  /\ <<arg[Len(arg) - 1]>> \in ICHIDAN_PRECEDING_CHARS
  /\ ret[1].result.verb.type = "godan"

\* C20: for a trimmed script-valid input, conjugate fails with UNKNOWN_VERB
\* exactly when the last character of the input is not one of う く ぐ す つ ぬ ぶ
\* む る, the inputs no classification rule matches; an input that ends with one
\* of the nine is conjugated successfully.
C20_UnknownVerb ==
  TrimmedValid =>
    /\ FailedWith("UNKNOWN_VERB") <=>
         arg[Len(arg)] \notin {12358, 12367, 12368, 12377, 12388, 12396, 12406, 12416, 12427}
    /\ arg[Len(arg)] \in {12358, 12367, 12368, 12377, 12388, 12396, 12406, 12416, 12427}
         => Succeeded
    /\ Succeeded \/ FailedWith("UNKNOWN_VERB")

\* a text that ends with a kanji has been rejected as an unknown verb
C20_Witness ==
  /\ TrimmedValid
  /\ FailedWith("UNKNOWN_VERB")
  /\ isKanji(arg[Len(arg)])
  /\ Len(arg) >= 2

\* C21: conjugate returns a value for every input string: a success with a
\* result, or a failure whose code is EMPTY_INPUT, INVALID_CHARACTERS or
\* UNKNOWN_VERB; AMBIGUOUS_VERB and CONJUGATION_FAILED are never produced.
C21_ErrorsAreValues ==
  ret # <<>> =>
    /\ "success" \in DOMAIN ret[1]
    /\ IF ret[1].success
       THEN DOMAIN ret[1] = {"success", "result"}
       ELSE /\ DOMAIN ret[1] = {"success", "error"}
            /\ ret[1].error.code \in {"EMPTY_INPUT", "INVALID_CHARACTERS", "UNKNOWN_VERB"}
            /\ ret[1].error.code \notin {"AMBIGUOUS_VERB", "CONJUGATION_FAILED"}

\* the error classifyVerb throws for an unknown verb has been caught and
\* returned with its code
C21_Witness ==
  /\ ret # <<>>
  /\ ~ret[1].success
  /\ ret[1].error = createError("UNKNOWN_VERB",
       "This verb is not recognized. Please check the spelling or try the dictionary form")
  /\ isJapanese(arg)

\* the text with every occurrence of one character replaced by another
Replace(text, from, to) == [k \in 1..Len(text) |-> IF text[k] = from THEN to ELSE text[k]]

\* the first call was made on 行く or いく and the latest one on the regular
\* く-terminal five-grade verb 書く
IkuThenKaku ==
  /\ input \in {<<34892, 12367>>, <<12356, 12367>>}
  /\ prev # <<>>
  /\ prev[1].success
  /\ arg = <<26360, 12367>>
  /\ Succeeded
  /\ ret[1].result.verb.type = "godan"

\* form k of the go-irregular verb is form k of 書く with the stem 書 replaced
\* by 行 in the kanji field, by い in the hiragana field and by i in the romaji
\* field
SameAsRegular(k) ==
  /\ prev[1].result.forms[k].id = ret[1].result.forms[k].id
  /\ prev[1].result.forms[k].kanji = Replace(ret[1].result.forms[k].kanji, 26360, 34892)
  /\ prev[1].result.forms[k].hiragana = Replace(ret[1].result.forms[k].hiragana, 26360, 12356)
  /\ prev[1].result.forms[k].romaji = Replace(ret[1].result.forms[k].romaji, 26360, 105)

\* form k of the go-irregular verb is its own te or ta form followed by what
\* follows the te or ta form in form k of 書く
BuiltOn(k, base) ==
  /\ HasPrefix(ret[1].result.forms[k].kanji, formOf(ret[1].result.forms, base).kanji)
  /\ prev[1].result.forms[k].kanji =
       formOf(prev[1].result.forms, base).kanji
         \o SubSeq(ret[1].result.forms[k].kanji,
                   Len(formOf(ret[1].result.forms, base).kanji) + 1,
                   Len(ret[1].result.forms[k].kanji))

\* C22 as stated: of the 34 forms of 行く only te and ta differ from what the
\* regular く pattern (with いて and いた) gives for the stem 行.
C22_IkuOnlyTeTa ==
  IkuThenKaku =>
    \A k \in 1..34 :
      prev[1].result.forms[k].id \notin {"te", "ta"} => SameAsRegular(k)

\* C22, amended: of the 34 forms of 行く, te and ta are 行って and 行った, the
\* four forms the generators build on te and ta (imperative-polite,
\* progressive-present, progressive-past on te, conditional-tara on ta) carry
\* that って or った, and the other 28 are what the regular く pattern gives for
\* the stem 行.
C22_IkuTeTaFamily ==
  IkuThenKaku =>
    /\ Len(prev[1].result.forms) = 34
    /\ formOf(prev[1].result.forms, "te").kanji = <<34892, 12387, 12390>>
    /\ formOf(prev[1].result.forms, "ta").kanji = <<34892, 12387, 12383>>
    /\ \A k \in 1..34 :
         CASE prev[1].result.forms[k].id \in {"te", "ta"} -> ~SameAsRegular(k)
           [] prev[1].result.forms[k].id
                \in {"imperative-polite", "progressive-present", "progressive-past"} ->
                ~SameAsRegular(k) /\ BuiltOn(k, "te")
           [] prev[1].result.forms[k].id = "conditional-tara" ->
                ~SameAsRegular(k) /\ BuiltOn(k, "ta")
           [] OTHER -> SameAsRegular(k)

\* 行く has been conjugated, then 書く
C22_Witness ==
  /\ IkuThenKaku
  /\ input = <<34892, 12367>>
  /\ formOf(prev[1].result.forms, "progressive-present").kanji = <<34892, 12387, 12390, 12356, 12427>>
  /\ formOf(ret[1].result.forms, "progressive-present").kanji = <<26360, 12356, 12390, 12356, 12427>>

\* a come-irregular verb, alone or in a compound, has been conjugated
KuruConjugated ==
  /\ Succeeded
  /\ "irregularType" \in DOMAIN ret[1].result.verb
  /\ ret[1].result.verb.irregularType = "kuru"

\* the positions at which the two renderings of a form differ
Differing(form) ==
  {p \in 1..Len(form.kanji) : Len(form.hiragana) < p \/ form.hiragana[p] # form.kanji[p]}

\* the form has a rendering with 来 and a rendering that is the same text with
\* the reading in the place of 来
ReadsAs(form, reading) ==
  /\ Len(form.hiragana) = Len(form.kanji)
  /\ \E p \in 1..Len(form.kanji) :
       /\ Differing(form) = {p}
       /\ form.kanji[p] = 26469
       /\ form.hiragana[p] = reading

\* C23 as stated: every form of the come-irregular verb has a phonetic rendering
\* and a rendering with 来; 来 is read with one kana in the dictionary, negative
\* and volitional forms and with another in the polite, past and connective
\* forms.
C23_KuruTwoReadings ==
  KuruConjugated =>
    \E one, other \in {12367, 12371, 12365} :
      /\ one # other
      /\ ReadsAs(formOf(ret[1].result.forms, "dictionary"), one)
      /\ ReadsAs(formOf(ret[1].result.forms, "nai"), one)
      /\ ReadsAs(formOf(ret[1].result.forms, "volitional-plain"), one)
      /\ ReadsAs(formOf(ret[1].result.forms, "masu"), other)
      /\ ReadsAs(formOf(ret[1].result.forms, "ta"), other)
      /\ ReadsAs(formOf(ret[1].result.forms, "te"), other)

\* the forms of the come-irregular verb in which 来 is read く
KuForms == {"dictionary", "imperative-negative", "conditional-ba", "conditional-nara"}

\* the forms of the come-irregular verb in which 来 is read こ
KoForms ==
  {"nai", "nakatta", "volitional-plain", "potential-plain", "potential-polite",
   "potential-negative", "passive-plain", "passive-polite", "causative-plain",
   "causative-polite", "causative-passive-plain", "causative-passive-polite",
   "imperative-plain"}

\* C23, amended: every form of the come-irregular verb has a phonetic rendering
\* and a rendering with 来 in the place of one kana; that kana is く in the
\* dictionary form and the forms built on it, こ in the negative, plain
\* volitional, potential, passive, causative and plain imperative forms, and き
\* in the polite, past, connective and all remaining forms.
C23_KuruThreeReadings ==
  KuruConjugated =>
    /\ Len(ret[1].result.forms) = 34
    /\ \A k \in 1..34 :
         ReadsAs(ret[1].result.forms[k],
                 CASE ret[1].result.forms[k].id \in KuForms -> 12367
                   [] ret[1].result.forms[k].id \in KoForms -> 12371
                   [] OTHER -> 12365)

\* 来る has been conjugated: くる, こない, きます
C23_Witness ==
  /\ KuruConjugated
  /\ arg = <<26469, 12427>>
  /\ formOf(ret[1].result.forms, "dictionary").hiragana = <<12367, 12427>>
  /\ formOf(ret[1].result.forms, "nai").hiragana = <<12371, 12394, 12356>>
  /\ formOf(ret[1].result.forms, "masu").hiragana = <<12365, 12414, 12377>>

\* C24: after every successful conjugation the form 'dictionary' has a kanji
\* field equal to the dictionaryForm of the verb.
C24_DictionaryInScript ==
  Succeeded =>
    formOf(ret[1].result.forms, "dictionary").kanji = ret[1].result.verb.dictionaryForm

\* C25: romajiToHiragana gives the same text for a Latin text and for that text
\* in lower case.
C25_CaseInsensitive ==
  (input \in LatinTexts /\ kana.typed # <<>> /\ kana.lowered # <<>>) =>
    kana.typed = kana.lowered

\* C26: romajiToHiragana gives back every text of full-size hiragana that
\* hiraganaToRomaji was applied to.
C26_RoundTrip ==
  (input \in KanaTexts /\ kana.back # <<>>) => kana.back[1] = input

\* the latest store action has passed the result now on display to addToHistory
AddedResult ==
  /\ \/ RanConjugate
     \/ op.name = "addToHistory"
  /\ store.error = <<>>
  /\ store.result # <<>>

\* the entry at position k of the history before is the first entry after, with
\* the given timestamp; the other entries follow in their previous order
MovedToFront(before, after, k, timestamp) ==
  /\ Len(after) = Len(before)
  /\ after[1].id = before[k].id
  /\ after[1].verb = before[k].verb
  /\ after[1].verbType = before[k].verbType
  /\ after[1].timestamp = timestamp
  /\ \A j \in 1..(k - 1) : after[j + 1] = before[j]
  /\ \A j \in (k + 1)..Len(before) : after[j] = before[j]

\* C27: a store action that adds a result whose verb is already in the history
\* moves the entry of the verb to the front with its id and verb type unchanged
\* and the timestamp of the result, leaves the other entries in their previous
\* order and the length of the history as it was.
C27_ReAddMovesToFront ==
  [][(AddedResult' /\ \E k \in 1..Len(store.history) :
                        store.history[k].verb = store'.result[1].verb.dictionaryForm) =>
       MovedToFront(store.history, store'.history,
                    findIndex(store.history, store'.result[1].verb.dictionaryForm) + 1,
                    store'.result[1].timestamp)]_vars

\* the last entry of a history of at least 49 entries has been restored at a
\* later clock reading: it is first and carries the new timestamp
C27_Witness ==
  /\ op.name = "restoreFromHistory"
  /\ op.position >= 49
  /\ store.error = <<>>
  /\ store.history[1].id = op.entry[1].id
  /\ store.history[1].timestamp = now
  /\ op.entry[1].timestamp < now
  /\ store.history[2].timestamp < now

\* no two entries of the history are entries of the same verb text
C28_UniqueVerbs ==
  \A j, k \in 1..Len(store.history) :
    j # k => store.history[j].verb # store.history[k].verb

\* C28: after any sequence of store operations from the empty history, no two
\* entries of the history have the same verb text and no two have the same id.
C28_UniqueEntries ==
  \A j, k \in 1..Len(store.history) :
    j # k => /\ store.history[j].verb # store.history[k].verb
             /\ store.history[j].id # store.history[k].id

\* the verb texts of the entries of a history
verbsOf(history) == {history[k].verb : k \in 1..Len(history)}

\* C29: when the history holds 50 entries and a verb that is not in it is
\* conjugated with success, the entry of the verb becomes the first, the first
\* 49 entries follow it in their previous order, and the entry that was last is
\* the one entry removed.
C29_OldestDropped ==
  [][(/\ Len(store.history) = 50
      /\ RanConjugate'
      /\ store'.error = <<>>
      /\ store'.result # <<>>
      /\ store'.result[1].verb.dictionaryForm \notin verbsOf(store.history)) =>
       /\ Len(store'.history) = 50
       /\ store'.history[1].verb = store'.result[1].verb.dictionaryForm
       /\ \A j \in 1..49 : store'.history[j + 1] = store.history[j]
       /\ verbsOf(store.history) \ verbsOf(store'.history) = {store.history[50].verb}]_vars

\* fifty-one verbs have been conjugated one after the other: the first of them
\* is gone from the history and the second is the last entry
C29_Witness ==
  /\ op.name = "conjugate"
  /\ store.error = <<>>
  /\ Len(store.history) = 50
  /\ store.history[1].verb = HistoryVerbs[51]
  /\ store.history[50].verb = HistoryVerbs[2]
  /\ HistoryVerbs[1] \notin verbsOf(store.history)

====
